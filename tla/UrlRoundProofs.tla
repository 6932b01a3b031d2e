---------------------------- MODULE UrlRoundProofs ----------------------------
(***************************************************************************)
(* Theorems about UrlRound: that the parser reads a text as RFC 3986 does,  *)
(* that what it printed reads as it was, that the texts of a round fit their *)
(* buffers, and that the server is asked for what the link says and followed *)
(* to where its Location leads, whatever applications and servers send.     *)
(***************************************************************************)
EXTENDS UrlRound, SequenceTheorems, NaturalsInduction, WellFoundedInduction, TLAPS

-------------------------------------------------------------------------------
(* Induction, in terms of sets: a set of naturals has a least element, a set  *)
(* with 0 and with each number the next contains them all, and the function   *)
(* by which a fold over a sequence is defined exists.                        *)

LEMMA Least ==
    ASSUME NEW T \in SUBSET Nat, T # {}
    PROVE  \E n \in T : \A m \in T : n <= m
<1> DEFINE Less == {r \in Nat \X Nat : r[1] < r[2]}
<1>1. IsWellFoundedOn(Less, Nat)
  <2>1. OpToRel(<, Nat) = Less
    BY Zenon DEF OpToRel
  <2> QED
    BY <2>1, NatLessThanWellFounded, Zenon
<1>2. PICK n \in T : \A m \in T : ~(<<m, n>> \in Less)
  BY <1>1, WFMin, Zenon
<1>3. \A m \in T : n <= m
  <2> TAKE m \in T
  <2>1. m \in Nat /\ n \in Nat /\ ~(m < n)
    BY <1>2
  <2> QED
    BY <2>1
<1> QED
  BY <1>3

LEMMA Greatest ==
    ASSUME NEW n \in Nat, NEW T \in SUBSET (1 .. n), T # {}
    PROVE  \E k \in T : \A m \in T : k >= m
<1> DEFINE Gaps == {n - m : m \in T}
<1>1. Gaps \in SUBSET Nat /\ Gaps # {}
  <2>1. \A m \in T : n - m \in Nat
    OBVIOUS
  <2> QED
    BY <2>1
<1>2. PICK g \in Gaps : \A h \in Gaps : g <= h
  <2> HIDE DEF Gaps
  <2> QED
    BY <1>1, Least
<1>3. PICK k \in T : g = n - k
  BY <1>2
<1>4. \A m \in T : k >= m
  <2> TAKE m \in T
  <2>1. n - k <= n - m
    BY <1>2, <1>3
  <2> QED
    BY <2>1
<1> QED
  BY <1>4

(* What holds of 0, and of each number after one it holds of, up to n *)
LEMMA UpToInduction ==
    ASSUME NEW n \in Nat, NEW Q, 0 \in Q, \A k \in 1 .. n : k - 1 \in Q => k \in Q
    PROVE  \A k \in 0 .. n : k \in Q
<1> DEFINE T == {k \in 0 .. n : k \notin Q}
<1> SUFFICES ASSUME T # {} PROVE FALSE
  OBVIOUS
<1>1. T \in SUBSET Nat
  OBVIOUS
<1>2. PICK k \in T : \A j \in T : k <= j
  <2> HIDE DEF T
  <2> QED
    BY <1>1, Least
<1>3. k \in 1 .. n /\ k - 1 \in 0 .. n
  BY <1>2
<1>4. k - 1 \in Q
  BY <1>2, <1>3
<1> QED
  BY <1>2, <1>3, <1>4

(* The values of a fold of F over 1 .. n from base on, for every set of places *)
Folded(it, n, F, base) ==
    /\ it[{}] = base
    /\ \A k \in 1 .. n : \A s \in SUBSET (1 .. k - 1) : it[s \cup {k}] = F[<<it[s], k>>]

LEMMA FoldExists ==
    ASSUME NEW T, NEW n \in Nat, NEW F \in [T \X (1 .. n) -> T], NEW base \in T
    PROVE  \E it \in [SUBSET (1 .. n) -> T] : Folded(it, n, F, base)
<1> DEFINE Q == {k \in 0 .. n : \E it \in [SUBSET (1 .. k) -> T] : Folded(it, k, F, base)}
<1>1. 0 \in Q
  <2> DEFINE it == [s \in SUBSET (1 .. 0) |-> base]
  <2>1. it \in [SUBSET (1 .. 0) -> T] /\ Folded(it, 0, F, base)
    BY DEF Folded
  <2> QED
    BY <2>1
<1>2. ASSUME NEW k \in 1 .. n, k - 1 \in Q PROVE k \in Q
  <2>1. PICK old \in [SUBSET (1 .. k - 1) -> T] : Folded(old, k - 1, F, base)
    BY <1>2
  <2> DEFINE it == [s \in SUBSET (1 .. k) |->
                      IF k \in s THEN F[<<old[s \ {k}], k>>] ELSE old[s]]
  <2>2. \A s \in SUBSET (1 .. k) : /\ s \ {k} \in SUBSET (1 .. k - 1)
                                   /\ k \notin s => s \in SUBSET (1 .. k - 1)
    OBVIOUS
  <2>3. it \in [SUBSET (1 .. k) -> T]
    BY <2>1, <2>2
  <2>4. \A s \in SUBSET (1 .. k - 1) : it[s] = old[s]
    OBVIOUS
  <2>5. it[{}] = base
    BY <2>1, <2>4 DEF Folded
  <2>6. ASSUME NEW j \in 1 .. k, NEW s \in SUBSET (1 .. j - 1)
        PROVE  it[s \cup {j}] = F[<<it[s], j>>]
    <3>1. s \in SUBSET (1 .. k - 1) /\ s \cup {j} \in SUBSET (1 .. k)
      OBVIOUS
    <3>2. CASE j = k
      <4>1. (s \cup {k}) \ {k} = s /\ k \in s \cup {k}
        BY <3>2
      <4> QED
        BY <2>4, <3>1, <3>2, <4>1
    <3>3. CASE j # k
      <4>1. j \in 1 .. k - 1 /\ s \cup {j} \in SUBSET (1 .. k - 1)
        BY <3>3
      <4>2. it[s \cup {j}] = old[s \cup {j}] /\ it[s] = old[s]
        BY <2>4, <3>1, <4>1
      <4> HIDE DEF it
      <4> QED
        BY <2>1, <2>6, <4>1, <4>2 DEF Folded
    <3> QED
      BY <3>2, <3>3
  <2> HIDE DEF it
  <2>7. Folded(it, k, F, base)
    BY <2>5, <2>6 DEF Folded
  <2> QED
    BY <2>3, <2>7
<1>3. n \in 0 .. n
  OBVIOUS
<1>4. n \in Q
  <2> HIDE DEF Q
  <2> QED
    BY <1>1, <1>2, <1>3, UpToInduction
<1> QED
  BY <1>4

Largest(s) == CHOOSE x \in s : \A y \in s : x >= y

LEMMA LargestOf ==
    ASSUME NEW n \in Nat, NEW s \in SUBSET (1 .. n), s # {}
    PROVE  /\ Largest(s) \in s /\ Largest(s) \in 1 .. n
           /\ s \ {Largest(s)} \in SUBSET (1 .. Largest(s) - 1)
           /\ s = (s \ {Largest(s)}) \cup {Largest(s)}
<1>1. \E x \in s : \A y \in s : x >= y
  BY Greatest
<1>2. Largest(s) \in s /\ \A y \in s : Largest(s) >= y
  BY <1>1, Zenon DEF Largest
<1>3. Largest(s) \in 1 .. n /\ \A y \in s : y \in 1 .. n
  BY <1>2
<1>4. \A y \in s \ {Largest(s)} : y \in 1 .. Largest(s) - 1
  BY <1>2, <1>3
<1> QED
  BY <1>2, <1>3, <1>4

LEMMA LargestUpTo ==
    ASSUME NEW n \in Nat, NEW k \in 1 .. n
    PROVE  /\ Largest(1 .. k) = k /\ (1 .. k) \ {k} = 1 .. (k - 1) /\ 1 .. k # {}
<1>1. k \in Nat /\ 1 .. k \in SUBSET (1 .. k) /\ k \in 1 .. k
  OBVIOUS
<1>2. Largest(1 .. k) \in 1 .. k /\ (1 .. k) \ {Largest(1 .. k)} \in SUBSET (1 .. Largest(1 .. k) - 1)
  BY <1>1, LargestOf
<1>3. Largest(1 .. k) = k
  <2> SUFFICES ASSUME Largest(1 .. k) # k PROVE FALSE
    OBVIOUS
  <2>1. k \in (1 .. k) \ {Largest(1 .. k)}
    BY <1>1
  <2>2. k \in 1 .. Largest(1 .. k) - 1
    BY <1>2, <2>1
  <2> QED
    BY <1>1, <1>2, <2>2
<1> QED
  BY <1>1, <1>3

(* The recursion of a fold: what it takes off a set of places is the largest *)
Recursion(it, T, n, F, base) ==
    /\ it \in [SUBSET (1 .. n) -> T]
    /\ it[{}] = base
    /\ \A s \in SUBSET (1 .. n) : s # {} =>
          /\ Largest(s) \in 1 .. n /\ s \ {Largest(s)} \in SUBSET (1 .. n)
          /\ it[s \ {Largest(s)}] \in T
          /\ it[s] = F[<<it[s \ {Largest(s)}], Largest(s)>>]

LEMMA FoldRecursion ==
    ASSUME NEW T, NEW n \in Nat, NEW F \in [T \X (1 .. n) -> T], NEW base \in T
    PROVE  \E it : Recursion(it, T, n, F, base)
<1>1. PICK it \in [SUBSET (1 .. n) -> T] : Folded(it, n, F, base)
  BY FoldExists
<1>2. ASSUME NEW s \in SUBSET (1 .. n), s # {}
      PROVE  /\ Largest(s) \in 1 .. n /\ s \ {Largest(s)} \in SUBSET (1 .. n)
             /\ it[s] = F[<<it[s \ {Largest(s)}], Largest(s)>>]
  <2>1. /\ Largest(s) \in 1 .. n
        /\ s \ {Largest(s)} \in SUBSET (1 .. Largest(s) - 1)
        /\ s = (s \ {Largest(s)}) \cup {Largest(s)}
    BY <1>2, LargestOf
  <2> DEFINE k == Largest(s)
             r == s \ {k}
  <2>2. k \in 1 .. n /\ r \in SUBSET (1 .. k - 1) /\ s = r \cup {k}
    BY <2>1
  <2>3. r \in SUBSET (1 .. n)
    BY <2>2
  <2> HIDE DEF k, r
  <2>4. it[s] = F[<<it[r], k>>]
    BY <1>1, <2>2 DEF Folded
  <2> QED
    BY <2>2, <2>3, <2>4 DEF k, r
<1>3. it[{}] = base
  BY <1>1 DEF Folded
<1> QED
  BY <1>2, <1>3 DEF Recursion

(* What a fold makes of the places one by one: all of T, where F keeps to T *)
Partials(part, it, T, n, F, base) ==
    /\ part \in [0 .. n -> T]
    /\ part[0] = base /\ part[n] = it[1 .. n]
    /\ \A k \in 1 .. n : part[k] = F[<<part[k - 1], k>>]

LEMMA FoldPartials ==
    ASSUME NEW T, NEW n \in Nat, NEW F \in [T \X (1 .. n) -> T], NEW base \in T,
           NEW it, it[{}] = base,
           \A s \in SUBSET (1 .. n) : s # {} /\ it[s \ {Largest(s)}] \in T =>
              it[s] = F[<<it[s \ {Largest(s)}], Largest(s)>>]
    PROVE  \E part : Partials(part, it, T, n, F, base)
<1> DEFINE part == [k \in 0 .. n |-> it[1 .. k]]
           Q == {k \in 0 .. n : part[k] \in T}
<1>1. part[0] = base
  <2>1. 1 .. 0 = {}
    OBVIOUS
  <2> QED
    BY <2>1
<1>2. \A k \in 1 .. n : part[k - 1] \in T => part[k] = F[<<part[k - 1], k>>] /\ part[k] \in T
  <2> TAKE k \in 1 .. n
  <2> SUFFICES ASSUME part[k - 1] \in T
               PROVE  part[k] = F[<<part[k - 1], k>>] /\ part[k] \in T
    OBVIOUS
  <2>1. /\ Largest(1 .. k) = k /\ (1 .. k) \ {k} = 1 .. (k - 1) /\ 1 .. k # {}
        /\ 1 .. k \in SUBSET (1 .. n)
    BY LargestUpTo
  <2>2. part[k] = it[1 .. k] /\ part[k - 1] = it[1 .. (k - 1)]
    OBVIOUS
  <2> HIDE DEF part
  <2> QED
    BY <2>1, <2>2
<1>3. \A k \in 0 .. n : k \in Q
  <2>1. 0 \in Q
    BY <1>1
  <2>2. ASSUME NEW k \in 1 .. n, k - 1 \in Q PROVE k \in Q
    <3> HIDE DEF part
    <3>1. k \in 0 .. n /\ part[k - 1] \in T
      BY <2>2
    <3> QED
      BY <1>2, <3>1
  <2> HIDE DEF Q
  <2> QED
    BY <2>1, <2>2, UpToInduction
<1>4. part \in [0 .. n -> T]
  BY <1>3
<1>5. part[n] = it[1 .. n] /\ \A k \in 1 .. n : k - 1 \in 0 .. n
  OBVIOUS
<1> HIDE DEF part
<1>6. \A k \in 1 .. n : part[k] = F[<<part[k - 1], k>>]
  BY <1>2, <1>4, <1>5
<1> QED
  BY <1>1, <1>4, <1>5, <1>6 DEF Partials

-------------------------------------------------------------------------------
(* The length of a text *)

LEMMA TokenSizes == \A t \in Token : Size[t] \in Nat \ {0}
BY UriAssumption

LEMMA LengthFold ==
    ASSUME NEW text \in Texts
    PROVE  \E part \in [0 .. Len(text) -> Nat] :
             /\ part[0] = 0 /\ part[Len(text)] = Length(text)
             /\ \A k \in 1 .. Len(text) : part[k] = part[k - 1] + Size[text[k]]
<1> DEFINE n == Len(text)
           F == [x \in Nat \X (1 .. n) |-> x[1] + Size[text[x[2]]]]
           Step(it) == [s \in SUBSET DOMAIN text |->
                          IF s = {} THEN 0 ELSE it[s \ {Max(s)}] + Size[text[Max(s)]]]
           it == CHOOSE f : f = Step(f)
<1>0. 0 \in Nat
  OBVIOUS
<1>1. Length(text) = it[DOMAIN text]
  BY Zenon DEF Length, FoldLeft, MapThenFoldSet
<1>2. n \in Nat /\ DOMAIN text = 1 .. n /\ \A k \in 1 .. n : text[k] \in Token
  BY DEF Texts
<1>3. \A x \in Nat : \A k \in 1 .. n : x + Size[text[k]] \in Nat
  BY <1>2, UriAssumption
<1>4. /\ F \in [Nat \X (1 .. n) -> Nat]
      /\ \A x \in Nat : \A k \in 1 .. n : F[<<x, k>>] = x + Size[text[k]]
  BY <1>3
<1>5. \A s : Max(s) = Largest(s)
  BY DEF Max, Largest
<1>6. it = Step(it)
  <2> HIDE DEF F, n
  <2>1. PICK f : Recursion(f, Nat, n, F, 0)
    BY <1>0, <1>2, <1>4, FoldRecursion
  <2>2. \A s \in SUBSET (1 .. n) : f[s] = IF s = {} THEN 0 ELSE f[s \ {Max(s)}] + Size[text[Max(s)]]
    <3> TAKE s \in SUBSET (1 .. n)
    <3>1. s # {} => /\ Largest(s) \in 1 .. n /\ f[s \ {Largest(s)}] \in Nat
                    /\ f[s] = F[<<f[s \ {Largest(s)}], Largest(s)>>]
      BY <2>1 DEF Recursion
    <3>2. f[{}] = 0
      BY <2>1 DEF Recursion
    <3> QED
      BY <1>4, <1>5, <3>1, <3>2, Zenon
  <2>3. f = Step(f)
    <3>1. f \in [SUBSET (1 .. n) -> Nat] /\ SUBSET DOMAIN text = SUBSET (1 .. n)
      BY <1>2, <2>1 DEF Recursion
    <3> QED
      BY <2>2, <3>1
  <2> HIDE DEF Step
  <2> QED
    BY <2>3, Zenon
<1> HIDE DEF it
<1>7. it[{}] = 0
  BY <1>2, <1>6
<1>8. \A s \in SUBSET (1 .. n) : s # {} /\ it[s \ {Largest(s)}] \in Nat =>
              it[s] = F[<<it[s \ {Largest(s)}], Largest(s)>>]
  <2> TAKE s \in SUBSET (1 .. n)
  <2> SUFFICES ASSUME s # {}, it[s \ {Largest(s)}] \in Nat
               PROVE  it[s] = F[<<it[s \ {Largest(s)}], Largest(s)>>]
    OBVIOUS
  <2>1. Largest(s) \in 1 .. n
    BY <1>2, LargestOf
  <2>2. it[s] = it[s \ {Max(s)}] + Size[text[Max(s)]]
    BY <1>2, <1>6
  <2> HIDE DEF F, n
  <2> QED
    BY <1>4, <1>5, <2>1, <2>2, Zenon
<1> HIDE DEF F, n
<1>9. PICK part : Partials(part, it, Nat, n, F, 0)
  BY <1>2, <1>4, <1>7, <1>8, <1>0, FoldPartials
<1>10. \A k \in 1 .. n : part[k] = part[k - 1] + Size[text[k]]
  <2> TAKE k \in 1 .. n
  <2>1. part[k - 1] \in Nat /\ part[k] = F[<<part[k - 1], k>>]
    <3>1. k - 1 \in 0 .. n
      BY <1>2
    <3>2. part \in [0 .. n -> Nat] /\ \A m \in 1 .. n : part[m] = F[<<part[m - 1], m>>]
      BY <1>9 DEF Partials
    <3> QED
      BY <3>1, <3>2
  <2> QED
    BY <1>4, <2>1, Zenon
<1>11. /\ part \in [0 .. n -> Nat]
       /\ part[0] = 0 /\ part[n] = Length(text)
  BY <1>1, <1>2, <1>9 DEF Partials
<1> QED
  BY <1>10, <1>11 DEF n

LEMMA TextFacts ==
    \A text \in Texts : /\ Len(text) \in Nat /\ DOMAIN text = 1 .. Len(text)
                        /\ \A k \in 1 .. Len(text) : text[k] \in Token
BY DEF Texts

LEMMA LengthNone == Length(<<>>) = 0
<1>1. <<>> \in Texts /\ Len(<<>>) = 0
  BY DEF Texts
<1>2. PICK part \in [0 .. Len(<<>>) -> Nat] : part[0] = 0 /\ part[Len(<<>>)] = Length(<<>>)
  BY <1>1, LengthFold
<1> QED
  BY <1>1, <1>2

LEMMA LengthType == \A text \in Texts : Length(text) \in Nat
<1> TAKE text \in Texts
<1>1. PICK part \in [0 .. Len(text) -> Nat] : part[0] = 0 /\ part[Len(text)] = Length(text)
  BY LengthFold
<1> QED
  BY <1>1, TextFacts

LEMMA LengthAppend ==
    ASSUME NEW text \in Texts, NEW c \in Token
    PROVE  Append(text, c) \in Texts /\ Length(Append(text, c)) = Length(text) + Size[c]
<1> DEFINE n == Len(text)
           more == Append(text, c)
<1>1. /\ more \in Texts /\ n \in Nat /\ Len(more) = n + 1 /\ more[n + 1] = c
      /\ \A k \in 1 .. n : more[k] = text[k] /\ text[k] \in Token
  BY DEF Texts
<1>2. PICK part \in [0 .. n -> Nat] :
             /\ part[0] = 0 /\ part[n] = Length(text)
             /\ \A k \in 1 .. n : part[k] = part[k - 1] + Size[text[k]]
  BY LengthFold
<1>3. PICK next \in [0 .. Len(more) -> Nat] :
             /\ next[0] = 0 /\ next[Len(more)] = Length(more)
             /\ \A k \in 1 .. Len(more) : next[k] = next[k - 1] + Size[more[k]]
  BY <1>1, LengthFold
<1> DEFINE Q == {k \in 0 .. n : next[k] = part[k]}
<1> HIDE DEF more, n
<1>4. 0 \in Q
  BY <1>1, <1>2, <1>3
<1>5. ASSUME NEW k \in 1 .. n, k - 1 \in Q PROVE k \in Q
  <2>1. k \in 0 .. n /\ k \in 1 .. Len(more) /\ next[k - 1] = part[k - 1] /\ more[k] = text[k]
    BY <1>1, <1>5
  <2>2. next[k] = next[k - 1] + Size[more[k]] /\ part[k] = part[k - 1] + Size[text[k]]
    BY <1>2, <1>3, <2>1
  <2> QED
    BY <2>1, <2>2
<1>6. n \in Q
  <2>1. n \in 0 .. n
    BY <1>1
  <2> HIDE DEF Q
  <2> QED
    BY <1>1, <1>4, <1>5, <2>1, UpToInduction
<1>7. next[n + 1] = next[(n + 1) - 1] + Size[more[n + 1]] /\ (n + 1) - 1 = n
  BY <1>1, <1>3
<1>8. Length(more) = Length(text) + Size[c]
  BY <1>1, <1>2, <1>3, <1>6, <1>7
<1> QED
  BY <1>1, <1>8 DEF more

LEMMA LengthOne == \A c \in Token : <<c>> \in Texts /\ Length(<<c>>) = Size[c]
<1> TAKE c \in Token
<1>1. <<>> \in Texts /\ Append(<<>>, c) = <<c>>
  BY DEF Texts
<1>2. Append(<<>>, c) \in Texts /\ Length(Append(<<>>, c)) = Length(<<>>) + Size[c]
  BY <1>1, LengthAppend
<1> QED
  BY <1>1, <1>2, LengthNone, TokenSizes

LEMMA LengthConcat ==
    ASSUME NEW s \in Texts, NEW t \in Texts
    PROVE  s \o t \in Texts /\ Length(s \o t) = Length(s) + Length(t)
<1> DEFINE n == Len(t)
           first(k) == SubSeq(t, 1, k)
           Q == {k \in 0 .. n : Length(s \o first(k)) = Length(s) + Length(first(k))}
<1>1. n \in Nat /\ s \o t \in Texts
  BY DEF Texts
<1>2. \A k \in 0 .. n : first(k) \in Texts /\ s \o first(k) \in Texts
  BY DEF Texts
<1>3. \A k \in 1 .. n : /\ k - 1 \in 0 .. n /\ t[k] \in Token
                        /\ first(k) = Append(first(k - 1), t[k])
                        /\ s \o first(k) = Append(s \o first(k - 1), t[k])
  BY DEF Texts
<1>4. first(0) = <<>> /\ s \o first(0) = s /\ first(n) = t
  BY DEF Texts
<1> HIDE DEF n, first
<1>5. 0 \in Q
  <2>1. Length(s) \in Nat /\ Length(<<>>) = 0 /\ 0 \in 0 .. n
    BY <1>1, LengthNone, LengthType
  <2>2. Length(first(0)) = 0 /\ Length(s \o first(0)) = Length(s)
    BY <1>4, <2>1, Zenon
  <2> QED
    BY <2>1, <2>2
<1>6. ASSUME NEW k \in 1 .. n, k - 1 \in Q PROVE k \in Q
  <2> DEFINE old == first(k - 1)
  <2>1. /\ k \in 0 .. n /\ k - 1 \in 0 .. n /\ Length(s \o old) = Length(s) + Length(old)
        /\ t[k] \in Token /\ old \in Texts /\ s \o old \in Texts
        /\ first(k) = Append(old, t[k]) /\ s \o first(k) = Append(s \o old, t[k])
    BY <1>1, <1>2, <1>3, <1>6
  <2> HIDE DEF old
  <2>2. Length(first(k)) = Length(old) + Size[t[k]] /\ Length(s \o first(k)) = Length(s \o old) + Size[t[k]]
    BY <2>1, LengthAppend
  <2>3. Length(old) \in Nat /\ Length(s) \in Nat /\ Size[t[k]] \in Nat
    BY <2>1, LengthType, TokenSizes
  <2>4. Length(s \o first(k)) = Length(s) + Length(first(k))
    BY <2>1, <2>2, <2>3
  <2> QED
    BY <2>1, <2>4
<1>7. n \in Q
  <2>1. n \in 0 .. n
    BY <1>1
  <2> HIDE DEF Q
  <2> QED
    BY <1>1, <1>5, <1>6, <2>1, UpToInduction
<1> QED
  BY <1>1, <1>4, <1>7

(* Cutting a text in two *)
LEMMA LengthCut ==
    ASSUME NEW text \in Texts, NEW k \in 0 .. Len(text)
    PROVE  /\ SubSeq(text, 1, k) \in Texts /\ SubSeq(text, k + 1, Len(text)) \in Texts
           /\ Length(text) = Length(SubSeq(text, 1, k)) + Length(SubSeq(text, k + 1, Len(text)))
<1>1. /\ SubSeq(text, 1, k) \in Texts /\ SubSeq(text, k + 1, Len(text)) \in Texts
      /\ text = SubSeq(text, 1, k) \o SubSeq(text, k + 1, Len(text))
  <2>1. Len(text) \in Nat /\ SubSeq(text, 1, k) \in Texts /\ SubSeq(text, k + 1, Len(text)) \in Texts
    BY DEF Texts
  <2>2. SubSeq(text, 1, k) \o SubSeq(text, k + 1, Len(text)) = SubSeq(text, 1, Len(text))
    <3>1. 1 \in 1 .. Len(text) + 1 /\ k \in 1 - 1 .. Len(text) /\ Len(text) \in k .. Len(text)
      BY <2>1
    <3> QED
      BY <3>1, ConcatAdjacentSubSeq DEF Texts
  <2>3. SubSeq(text, 1, Len(text)) = text
    BY SubSeqFull DEF Texts
  <2> QED
    BY <2>1, <2>2, <2>3
<1> QED
  BY <1>1, LengthConcat

(* A text of single characters *)
LEMMA LengthSingle ==
    ASSUME NEW text \in Texts, \A k \in 1 .. Len(text) : Size[text[k]] = 1
    PROVE  Length(text) = Len(text)
<1>1. PICK part \in [0 .. Len(text) -> Nat] :
             /\ part[0] = 0 /\ part[Len(text)] = Length(text)
             /\ \A k \in 1 .. Len(text) : part[k] = part[k - 1] + Size[text[k]]
  BY LengthFold
<1> DEFINE Q == {k \in 0 .. Len(text) : part[k] = k}
<1>2. Len(text) \in Nat
  BY TextFacts
<1>3. 0 \in Q
  BY <1>1, <1>2
<1>4. ASSUME NEW k \in 1 .. Len(text), k - 1 \in Q PROVE k \in Q
  <2>1. part[k - 1] = k - 1 /\ part[k] = part[k - 1] + 1 /\ k \in 0 .. Len(text)
    BY <1>1, <1>2, <1>4
  <2> QED
    BY <2>1
<1>5. Len(text) \in Q
  <2>1. Len(text) \in 0 .. Len(text)
    BY <1>2
  <2> HIDE DEF Q
  <2> QED
    BY <1>2, <1>3, <1>4, <2>1, UpToInduction
<1> QED
  BY <1>1, <1>5

-------------------------------------------------------------------------------
(* Places in a text *)

LEMMA MinOf ==
    ASSUME NEW T \in SUBSET Nat, T # {}
    PROVE  Min(T) \in T /\ \A m \in T : Min(T) <= m
<1>1. \E n \in T : \A m \in T : n <= m
  BY Least
<1> QED
  BY <1>1, Zenon DEF Min

LEMMA MaxOf ==
    ASSUME NEW n \in Nat, NEW T \in SUBSET (1 .. n), T # {}
    PROVE  Max(T) \in T /\ \A m \in T : Max(T) >= m
<1>1. \E k \in T : \A m \in T : k >= m
  BY Greatest
<1> QED
  BY <1>1, Zenon DEF Max

(* What Find finds: nothing, or the first of the places *)
LEMMA Found ==
    ASSUME NEW text \in Texts, NEW c, NEW from \in Nat \ {0}
    PROVE  /\ Find(c, text, from) \in 0 .. Len(text)
           /\ Find(c, text, from) = 0 => \A k \in from .. Len(text) : text[k] # c
           /\ Find(c, text, from) # 0 =>
                /\ Find(c, text, from) \in from .. Len(text)
                /\ Find(c, text, from) \in 1 .. Len(text)
                /\ text[Find(c, text, from)] = c
                /\ \A k \in from .. Find(c, text, from) - 1 : text[k] # c
<1> DEFINE hits == {k \in from .. Len(text) : text[k] = c}
<1>1. Len(text) \in Nat
  BY TextFacts
<1>2. CASE hits = {}
  <2>1. Find(c, text, from) = 0
    BY <1>2 DEF Find
  <2> QED
    BY <1>1, <1>2, <2>1
<1>3. CASE hits # {}
  <2>1. Find(c, text, from) = Min(hits) /\ hits \in SUBSET Nat
    BY <1>1, <1>3 DEF Find
  <2>2. Min(hits) \in hits /\ \A m \in hits : Min(hits) <= m
    <3> HIDE DEF hits
    <3> QED
      BY <1>3, <2>1, MinOf
  <2> DEFINE f == Min(hits)
  <2>3. f \in from .. Len(text) /\ f \in 1 .. Len(text) /\ text[f] = c
    BY <1>1, <2>2
  <2>4. \A k \in from .. f - 1 : text[k] # c
    <3> TAKE k \in from .. f - 1
    <3> SUFFICES ASSUME text[k] = c PROVE FALSE
      OBVIOUS
    <3>1. k \in hits
      BY <1>1, <2>3
    <3>2. f <= k
      BY <2>2, <3>1
    <3> HIDE DEF hits, f
    <3> QED
      BY <1>1, <2>3, <3>2
  <2> HIDE DEF hits
  <2> QED
    BY <1>1, <2>1, <2>3, <2>4
<1> QED
  BY <1>2, <1>3

(* The first of several marks, or the place behind the text *)
LEMMA FoundBefore ==
    ASSUME NEW text \in Texts, NEW marks, NEW from \in 1 .. Len(text) + 1
    PROVE  /\ Before(text, from, marks) \in from .. Len(text) + 1
           /\ Before(text, from, marks) \in 1 .. Len(text) + 1
           /\ Before(text, from, marks) <= Len(text) => text[Before(text, from, marks)] \in marks
           /\ \A k \in from .. Before(text, from, marks) - 1 : text[k] \notin marks
<1> DEFINE hits == {k \in from .. Len(text) : text[k] \in marks}
<1>1. Len(text) \in Nat
  BY TextFacts
<1>2. CASE hits = {}
  <2>1. Before(text, from, marks) = Len(text) + 1
    BY <1>2 DEF Before
  <2> QED
    BY <1>1, <1>2, <2>1
<1>3. CASE hits # {}
  <2>1. Before(text, from, marks) = Min(hits) /\ hits \in SUBSET Nat
    BY <1>1, <1>3 DEF Before
  <2>2. Min(hits) \in hits /\ \A m \in hits : Min(hits) <= m
    <3> HIDE DEF hits
    <3> QED
      BY <1>3, <2>1, MinOf
  <2> DEFINE f == Min(hits)
  <2>3. f \in from .. Len(text) /\ f \in 1 .. Len(text) /\ text[f] \in marks
    BY <1>1, <2>2
  <2>4. \A k \in from .. f - 1 : text[k] \notin marks
    <3> TAKE k \in from .. f - 1
    <3> SUFFICES ASSUME text[k] \in marks PROVE FALSE
      OBVIOUS
    <3>1. k \in hits
      BY <1>1, <2>3
    <3>2. f <= k
      BY <2>2, <3>1
    <3> HIDE DEF hits, f
    <3> QED
      BY <1>1, <2>3, <3>2
  <2> HIDE DEF hits
  <2> QED
    BY <1>1, <2>1, <2>3, <2>4
<1> QED
  BY <1>2, <1>3

(* There is one such place only *)
LEMMA BeforeIs ==
    ASSUME NEW text \in Texts, NEW marks, NEW from \in 1 .. Len(text) + 1,
           NEW b \in from .. Len(text) + 1, b <= Len(text) => text[b] \in marks,
           \A k \in from .. b - 1 : text[k] \notin marks
    PROVE  Before(text, from, marks) = b
<1> DEFINE a == Before(text, from, marks)
<1>1. Len(text) \in Nat
  BY TextFacts
<1>2. /\ a \in from .. Len(text) + 1 /\ (a <= Len(text) => text[a] \in marks)
      /\ \A k \in from .. a - 1 : text[k] \notin marks
  BY FoundBefore
<1> HIDE DEF a
<1>3. ~(a < b)
  <2> SUFFICES ASSUME a < b PROVE FALSE
    OBVIOUS
  <2>1. a \in from .. b - 1 /\ a <= Len(text)
    BY <1>1, <1>2
  <2> QED
    BY <1>2, <2>1
<1>4. ~(b < a)
  <2> SUFFICES ASSUME b < a PROVE FALSE
    OBVIOUS
  <2>1. b \in from .. a - 1 /\ b <= Len(text)
    BY <1>1, <1>2
  <2> QED
    BY <1>2, <2>1
<1>5. a = b
  BY <1>1, <1>2, <1>3, <1>4
<1> QED
  BY <1>5 DEF a

(* A part of a text *)
LEMMA Sub ==
    ASSUME NEW text \in Texts, NEW i \in Nat \ {0}, NEW j \in Int, j <= Len(text)
    PROVE  /\ SubSeq(text, i, j) \in Texts
           /\ Len(SubSeq(text, i, j)) = IF i <= j THEN j - i + 1 ELSE 0
           /\ \A k \in 1 .. j - i + 1 : SubSeq(text, i, j)[k] = text[i + k - 1]
<1>1. Len(text) \in Nat /\ \A k \in 1 .. Len(text) : text[k] \in Token
  BY TextFacts
<1>2. \A k \in i .. j : text[k] \in Token
  BY <1>1
<1>3. i \in Int /\ \A k \in Int : i + k - 1 = k + i - 1
  OBVIOUS
<1>4. /\ SubSeq(text, i, j) \in Texts
      /\ Len(SubSeq(text, i, j)) = IF i <= j THEN j - i + 1 ELSE 0
      /\ \A k \in 1 .. j - i + 1 : SubSeq(text, i, j)[k] = text[i + k - 1]
  BY <1>2, <1>3, SubSeqProperties DEF Texts
<1> QED
  BY <1>4

(* Where "://" is *)
LEMMA SchemeFound ==
    ASSUME NEW text \in Texts
    PROVE  /\ SchemeEnd(text) \in Nat
           /\ SchemeEnd(text) # 0 => /\ SchemeEnd(text) \in 1 .. Len(text) - 2
                                     /\ text[SchemeEnd(text)] = COLON
                                     /\ text[SchemeEnd(text) + 1] = SLASH
                                     /\ text[SchemeEnd(text) + 2] = SLASH
<1> DEFINE hits == {k \in 1..(Len(text) - 2) : SubSeq(text, k, k + 2) = SCHEME_SEPARATOR}
<1>1. Len(text) \in Nat
  BY TextFacts
<1>2. CASE hits = {}
  BY <1>2 DEF SchemeEnd
<1>3. CASE hits # {}
  <2>1. SchemeEnd(text) = Min(hits) /\ hits \in SUBSET Nat
    BY <1>1, <1>3 DEF SchemeEnd
  <2>2. Min(hits) \in hits
    <3> HIDE DEF hits
    <3> QED
      BY <1>3, <2>1, MinOf
  <2> DEFINE f == SchemeEnd(text)
  <2>3. f \in 1 .. Len(text) - 2 /\ SubSeq(text, f, f + 2) = SCHEME_SEPARATOR
    BY <2>1, <2>2
  <2> HIDE DEF f, hits
  <2>4. \A k \in 1 .. (f + 2) - f + 1 : SubSeq(text, f, f + 2)[k] = text[f + k - 1]
    BY <1>1, <2>3, Sub
  <2>5. SCHEME_SEPARATOR[1] = COLON /\ SCHEME_SEPARATOR[2] = SLASH /\ SCHEME_SEPARATOR[3] = SLASH
    BY DEF SCHEME_SEPARATOR
  <2>6. /\ 1 \in 1 .. (f + 2) - f + 1 /\ 2 \in 1 .. (f + 2) - f + 1 /\ 3 \in 1 .. (f + 2) - f + 1
        /\ f + 1 - 1 = f /\ f + 2 - 1 = f + 1 /\ f + 3 - 1 = f + 2
    BY <2>3
  <2>7. text[f] = COLON /\ text[f + 1] = SLASH /\ text[f + 2] = SLASH
    BY <2>3, <2>4, <2>5, <2>6, Zenon
  <2> QED
    BY <1>1, <2>3, <2>7 DEF f
<1> QED
  BY <1>2, <1>3

-------------------------------------------------------------------------------
(* The pieces of a text *)

(* The places of the marks in a text, and 0 *)
Cuts(text, marks) ==
    FoldLeftDomain(LAMBDA s, k : IF text[k] \in marks THEN Append(s, k) ELSE s, <<0>>, text)

CutPartials(text, marks, part) ==
    /\ part \in [0 .. Len(text) -> Seq(Nat)]
    /\ part[0] = <<0>> /\ part[Len(text)] = Cuts(text, marks)
    /\ \A k \in 1 .. Len(text) :
         part[k] = IF text[k] \in marks THEN Append(part[k - 1], k) ELSE part[k - 1]

LEMMA CutsFold ==
    ASSUME NEW text \in Texts, NEW marks
    PROVE  \E part : CutPartials(text, marks, part)
<1> DEFINE n == Len(text)
           F == [x \in Seq(Nat) \X (1 .. n) |->
                   IF text[x[2]] \in marks THEN Append(x[1], x[2]) ELSE x[1]]
           at == [i \in DOMAIN text |-> i]
           Step(it) == [s \in SUBSET DOMAIN at |->
                          IF s = {} THEN <<0>>
                          ELSE IF text[at[Max(s)]] \in marks THEN Append(it[s \ {Max(s)}], at[Max(s)]) ELSE it[s \ {Max(s)}]]
           it == CHOOSE f : f = Step(f)
<1>1. Cuts(text, marks) = it[DOMAIN at]
  BY Zenon DEF Cuts, FoldLeftDomain, FoldLeft, MapThenFoldSet
<1>2. n \in Nat /\ DOMAIN at = 1 .. n /\ DOMAIN text = 1 .. n /\ \A k \in 1 .. n : at[k] = k
  BY DEF Texts
<1>3. F \in [Seq(Nat) \X (1 .. n) -> Seq(Nat)]
  OBVIOUS
<1>4. \A x \in Seq(Nat) : \A k \in 1 .. n :
         F[<<x, k>>] = IF text[k] \in marks THEN Append(x, k) ELSE x
  OBVIOUS
<1>5. \A s : Max(s) = Largest(s)
  BY DEF Max, Largest
<1>6. it = Step(it)
  <2> HIDE DEF F, n
  <2>1. <<0>> \in Seq(Nat)
    OBVIOUS
  <2>2. PICK f : Recursion(f, Seq(Nat), n, F, <<0>>)
    BY <1>2, <1>3, <2>1, FoldRecursion
  <2>3. \A s \in SUBSET (1 .. n) :
           f[s] = IF s = {} THEN <<0>>
                  ELSE IF text[at[Max(s)]] \in marks THEN Append(f[s \ {Max(s)}], at[Max(s)]) ELSE f[s \ {Max(s)}]
    <3> TAKE s \in SUBSET (1 .. n)
    <3> HIDE DEF at
    <3>1. s # {} => /\ Largest(s) \in 1 .. n /\ f[s \ {Largest(s)}] \in Seq(Nat)
                    /\ f[s] = F[<<f[s \ {Largest(s)}], Largest(s)>>]
      BY <2>2 DEF Recursion
    <3>2. f[{}] = <<0>>
      BY <2>2 DEF Recursion
    <3>3. CASE s = {}
      BY <3>2, <3>3
    <3>4. CASE s # {}
      <4>1. F[<<f[s \ {Largest(s)}], Largest(s)>>]
              = IF text[Largest(s)] \in marks THEN Append(f[s \ {Largest(s)}], Largest(s))
                ELSE f[s \ {Largest(s)}]
        BY <1>4, <3>1, <3>4, Zenon
      <4>2. at[Max(s)] = Largest(s) /\ Max(s) = Largest(s)
        BY <1>2, <1>5, <3>1, <3>4
      <4> QED
        BY <3>1, <3>4, <4>1, <4>2, Zenon
    <3> QED
      BY <3>3, <3>4
  <2>4. f = Step(f)
    <3>1. f \in [SUBSET (1 .. n) -> Seq(Nat)] /\ SUBSET DOMAIN at = SUBSET (1 .. n)
      BY <1>2, <2>2 DEF Recursion
    <3> HIDE DEF at
    <3> QED
      BY <2>3, <3>1
  <2> HIDE DEF Step
  <2> QED
    BY <2>4, Zenon
<1> HIDE DEF it
<1>7. it[{}] = <<0>>
  BY <1>2, <1>6
<1>8. \A s \in SUBSET (1 .. n) : s # {} /\ it[s \ {Largest(s)}] \in Seq(Nat) =>
              it[s] = F[<<it[s \ {Largest(s)}], Largest(s)>>]
  <2> TAKE s \in SUBSET (1 .. n)
  <2> SUFFICES ASSUME s # {}, it[s \ {Largest(s)}] \in Seq(Nat)
               PROVE  it[s] = F[<<it[s \ {Largest(s)}], Largest(s)>>]
    OBVIOUS
  <2>1. Largest(s) \in 1 .. n
    BY <1>2, LargestOf
  <2>2. it[s] = IF text[at[Max(s)]] \in marks THEN Append(it[s \ {Max(s)}], at[Max(s)]) ELSE it[s \ {Max(s)}]
    BY <1>2, <1>6
  <2> HIDE DEF F, at, n
  <2>3. F[<<it[s \ {Largest(s)}], Largest(s)>>]
          = IF text[Largest(s)] \in marks THEN Append(it[s \ {Largest(s)}], Largest(s)) ELSE it[s \ {Largest(s)}]
    BY <1>4, <2>1, Zenon
  <2>4. at[Max(s)] = Largest(s) /\ Max(s) = Largest(s)
    BY <1>2, <1>5, <2>1
  <2> QED
    BY <2>2, <2>3, <2>4, Zenon
<1>9. <<0>> \in Seq(Nat)
  OBVIOUS
<1> HIDE DEF F, at, n
<1>10. PICK part : Partials(part, it, Seq(Nat), n, F, <<0>>)
  BY <1>2, <1>3, <1>7, <1>8, <1>9, FoldPartials
<1>11. \A k \in 1 .. n : part[k - 1] \in Seq(Nat)
  BY <1>2, <1>10 DEF Partials
<1>12. \A k \in 1 .. n :
           part[k] = IF text[k] \in marks THEN Append(part[k - 1], k) ELSE part[k - 1]
  BY <1>4, <1>10, <1>11 DEF Partials
<1>13. /\ part \in [0 .. n -> Seq(Nat)]
       /\ part[0] = <<0>> /\ part[n] = Cuts(text, marks)
  BY <1>1, <1>2, <1>10 DEF Partials
<1> QED
  BY <1>12, <1>13 DEF n, CutPartials

(* Places from 0 up to k, each the first mark behind the one before it, with   *)
(* no mark from the last one up to k                                          *)
CutsUpTo(text, marks, c, k) ==
    /\ c \in Seq(Nat) /\ Len(c) \in Nat \ {0} /\ c[1] = 0
    /\ \A i \in 1 .. Len(c) : c[i] \in 0 .. k
    /\ \A i \in 1 .. Len(c) - 1 : /\ c[i] < c[i + 1] /\ text[c[i + 1]] \in marks
                                  /\ \A j \in c[i] + 1 .. c[i + 1] - 1 : text[j] \notin marks
    /\ \A j \in c[Len(c)] + 1 .. k : text[j] \notin marks

LEMMA CutsAre ==
    ASSUME NEW text \in Texts, NEW marks
    PROVE  CutsUpTo(text, marks, Cuts(text, marks), Len(text))
<1> DEFINE n == Len(text)
<1>1. n \in Nat /\ n \in 0 .. n
  BY DEF Texts
<1>2. PICK part : CutPartials(text, marks, part)
  BY CutsFold
<1>3. /\ part \in [0 .. n -> Seq(Nat)] /\ part[0] = <<0>> /\ part[n] = Cuts(text, marks)
      /\ \A k \in 1 .. n : part[k] = IF text[k] \in marks THEN Append(part[k - 1], k) ELSE part[k - 1]
  BY <1>2 DEF CutPartials
<1> DEFINE Q == {k \in 0 .. n : CutsUpTo(text, marks, part[k], k)}
<1>4. 0 \in Q
  <2>1. CutsUpTo(text, marks, <<0>>, 0)
    BY DEF CutsUpTo
  <2>2. CutsUpTo(text, marks, part[0], 0) /\ 0 \in 0 .. n
    BY <1>1, <1>3, <2>1
  <2> QED
    BY <2>2
<1>5. ASSUME NEW k \in 1 .. n, k - 1 \in Q PROVE k \in Q
  <2> DEFINE old == part[k - 1]
  <2>1. k \in 0 .. n /\ k \in Nat \ {0}
    BY <1>1
  <2>2. CutsUpTo(text, marks, old, k - 1)
    BY <1>5
  <2>3. part[k] = IF text[k] \in marks THEN Append(old, k) ELSE old
    BY <1>3
  <2> HIDE DEF old
  <2>4. /\ old \in Seq(Nat) /\ Len(old) \in Nat \ {0} /\ old[1] = 0
        /\ \A i \in 1 .. Len(old) : old[i] \in Nat /\ old[i] <= k - 1
        /\ \A i \in 1 .. Len(old) - 1 : /\ old[i] < old[i + 1] /\ text[old[i + 1]] \in marks
                                        /\ \A j \in old[i] + 1 .. old[i + 1] - 1 : text[j] \notin marks
        /\ \A j \in old[Len(old)] + 1 .. k - 1 : text[j] \notin marks
    BY <2>1, <2>2 DEF CutsUpTo
  <2>5. CASE text[k] \notin marks
    <3>1. \A j \in old[Len(old)] + 1 .. k : text[j] \notin marks
      <4> TAKE j \in old[Len(old)] + 1 .. k
      <4>1. old[Len(old)] \in Nat /\ (j = k \/ j \in old[Len(old)] + 1 .. k - 1)
        BY <2>1, <2>4
      <4> QED
        BY <2>4, <2>5, <4>1
    <3>2. \A i \in 1 .. Len(old) : old[i] \in 0 .. k
      BY <2>1, <2>4
    <3>3. CutsUpTo(text, marks, old, k)
      BY <2>4, <3>1, <3>2, Zenon DEF CutsUpTo
    <3> QED
      BY <2>1, <2>3, <2>5, <3>3
  <2>6. CASE text[k] \in marks
    <3> DEFINE c == Append(old, k)
    <3>1. /\ c \in Seq(Nat) /\ Len(c) = Len(old) + 1 /\ c[Len(old) + 1] = k
          /\ \A i \in 1 .. Len(old) : c[i] = old[i]
      BY <2>1, <2>4
    <3> HIDE DEF c
    <3>2. Len(c) \in Nat \ {0} /\ c[1] = 0
      <4>1. 1 \in 1 .. Len(old) /\ Len(old) + 1 \in Nat \ {0}
        BY <2>4
      <4> QED
        BY <2>4, <3>1, <4>1
    <3>3. \A i \in 1 .. Len(c) : c[i] \in 0 .. k
      <4> TAKE i \in 1 .. Len(c)
      <4>1. CASE i = Len(old) + 1
        BY <2>1, <3>1, <4>1
      <4>2. CASE i # Len(old) + 1
        <5>1. i \in 1 .. Len(old)
          BY <2>4, <3>1, <4>2
        <5> QED
          BY <2>1, <2>4, <3>1, <5>1
      <4> QED
        BY <4>1, <4>2
    <3>4. \A i \in 1 .. Len(c) - 1 : /\ c[i] < c[i + 1] /\ text[c[i + 1]] \in marks
                                     /\ \A j \in c[i] + 1 .. c[i + 1] - 1 : text[j] \notin marks
      <4> TAKE i \in 1 .. Len(c) - 1
      <4>1. CASE i = Len(old)
        <5>1. c[i] = old[Len(old)] /\ c[i + 1] = k /\ old[Len(old)] \in Nat /\ old[Len(old)] <= k - 1
          BY <2>1, <2>4, <3>1, <4>1
        <5> QED
          BY <2>1, <2>4, <2>6, <5>1
      <4>2. CASE i # Len(old)
        <5>1. i \in 1 .. Len(old) - 1 /\ i \in 1 .. Len(old) /\ i + 1 \in 1 .. Len(old)
          BY <2>4, <3>1, <4>2
        <5>2. c[i] = old[i] /\ c[i + 1] = old[i + 1]
          BY <3>1, <5>1
        <5> QED
          BY <2>4, <5>1, <5>2, Zenon
      <4> QED
        BY <4>1, <4>2
    <3>5. \A j \in c[Len(c)] + 1 .. k : text[j] \notin marks
      BY <2>1, <3>1
    <3>6. CutsUpTo(text, marks, c, k)
      BY <3>1, <3>2, <3>3, <3>4, <3>5, Zenon DEF CutsUpTo
    <3> QED
      BY <2>1, <2>3, <2>6, <3>6 DEF c
  <2> QED
    BY <2>5, <2>6
<1>6. n \in Q
  <2> HIDE DEF Q
  <2> QED
    BY <1>1, <1>4, <1>5, UpToInduction
<1> QED
  BY <1>3, <1>6

(* Where piece n starts *)
StartOf(pieces, n) == IF n = 1 THEN 1 ELSE pieces[n - 1].end + 1

PieceType == [text : Texts, end : Nat \ {0}]

(* Each piece runs up to the first mark from its start on, the last one to the *)
(* end of the text                                                            *)
LEMMA PiecesAre ==
    ASSUME NEW text \in Texts, NEW marks
    PROVE  LET p == Pieces(text, marks)
           IN  /\ p \in Seq(PieceType) /\ Len(p) \in Nat \ {0} /\ DOMAIN p = 1 .. Len(p)
               /\ p[Len(p)].end = Len(text) + 1
               /\ \A n \in 1 .. Len(p) - 1 : p[n].end <= Len(text)
               /\ \A n \in 1 .. Len(p) :
                    /\ StartOf(p, n) \in 1 .. Len(text) + 1
                    /\ p[n].end = Before(text, StartOf(p, n), marks)
                    /\ p[n].text = SubSeq(text, StartOf(p, n), p[n].end - 1)
                    /\ p[n].text \in Texts /\ p[n].end \in 1 .. Len(text) + 1
<1> DEFINE c == Cuts(text, marks)
           m == Len(c)
           cuts == c \o <<Len(text) + 1>>
           p == Pieces(text, marks)
<1>1. Len(text) \in Nat
  BY TextFacts
<1>2. p = [n \in 1 .. (Len(cuts) - 1) |->
             [text |-> SubSeq(text, cuts[n] + 1, cuts[n + 1] - 1), end |-> cuts[n + 1]]]
  BY DEF Pieces, Cuts
<1>3. CutsUpTo(text, marks, c, Len(text))
  BY CutsAre
<1> HIDE DEF c
<1>4. c \in Seq(Nat) /\ m \in Nat \ {0} /\ c[1] = 0
  BY <1>3 DEF CutsUpTo
<1>5. /\ Len(cuts) = m + 1 /\ cuts[m + 1] = Len(text) + 1
      /\ \A i \in 1 .. m : cuts[i] = c[i]
  BY <1>1, <1>4
<1> HIDE DEF cuts, m, p
<1>6. \A i \in 1 .. m : /\ cuts[i] \in 0 .. Len(text) /\ cuts[i + 1] \in 1 .. Len(text) + 1
                        /\ cuts[i] < cuts[i + 1]
                        /\ cuts[i + 1] <= Len(text) => text[cuts[i + 1]] \in marks
                        /\ \A j \in cuts[i] + 1 .. cuts[i + 1] - 1 : text[j] \notin marks
                        /\ i # m => cuts[i + 1] <= Len(text)
  <2> TAKE i \in 1 .. m
  <2>1. CASE i = m
    <3>1. cuts[i + 1] = Len(text) + 1 /\ cuts[i] = c[m] /\ c[m] \in 0 .. Len(text)
      BY <1>3, <1>4, <1>5, <2>1 DEF CutsUpTo, m
    <3>2. \A j \in c[m] + 1 .. Len(text) : text[j] \notin marks
      BY <1>3 DEF CutsUpTo, m
    <3> QED
      BY <1>1, <2>1, <3>1, <3>2
  <2>2. CASE i # m
    <3>1. i \in 1 .. m - 1 /\ i + 1 \in 1 .. m
      BY <1>4, <2>2
    <3>2. cuts[i] = c[i] /\ cuts[i + 1] = c[i + 1] /\ c[i] \in 0 .. Len(text) /\ c[i + 1] \in 0 .. Len(text)
      BY <1>3, <1>5, <3>1 DEF CutsUpTo, m
    <3>3. /\ c[i] < c[i + 1] /\ text[c[i + 1]] \in marks
          /\ \A j \in c[i] + 1 .. c[i + 1] - 1 : text[j] \notin marks
      BY <1>3, <3>1, Zenon DEF CutsUpTo, m
    <3> QED
      BY <1>1, <3>2, <3>3
  <2> QED
    BY <2>1, <2>2
<1>7. p = [n \in 1 .. m |-> [text |-> SubSeq(text, cuts[n] + 1, cuts[n + 1] - 1), end |-> cuts[n + 1]]]
  BY <1>2, <1>4, <1>5
<1>8. \A n \in 1 .. m : /\ p[n].end = cuts[n + 1]
                        /\ p[n].text = SubSeq(text, cuts[n] + 1, cuts[n + 1] - 1)
                        /\ p[n].text \in Texts /\ p[n] \in PieceType
  <2> TAKE n \in 1 .. m
  <2>1. p[n] = [text |-> SubSeq(text, cuts[n] + 1, cuts[n + 1] - 1), end |-> cuts[n + 1]]
    BY <1>7
  <2>2. cuts[n] + 1 \in Nat \ {0} /\ cuts[n + 1] - 1 \in Int /\ cuts[n + 1] - 1 <= Len(text) /\ cuts[n + 1] \in Nat \ {0}
    BY <1>1, <1>6
  <2>3. SubSeq(text, cuts[n] + 1, cuts[n + 1] - 1) \in Texts
    BY <2>2, Sub
  <2>4. \A t \in Texts : \A e \in Nat \ {0} : [text |-> t, end |-> e] \in PieceType
    BY DEF PieceType
  <2>5. p[n] \in PieceType
    BY <2>1, <2>2, <2>3, <2>4, Zenon
  <2>6. p[n].text = SubSeq(text, cuts[n] + 1, cuts[n + 1] - 1) /\ p[n].end = cuts[n + 1]
    <3>1. \A a, b : [text |-> a, end |-> b].text = a /\ [text |-> a, end |-> b].end = b
      OBVIOUS
    <3> DEFINE x == SubSeq(text, cuts[n] + 1, cuts[n + 1] - 1)
               y == cuts[n + 1]
    <3>2. p[n] = [text |-> x, end |-> y]
      BY <2>1
    <3> HIDE DEF x, y
    <3>3. p[n].text = x /\ p[n].end = y
      BY <3>1, <3>2
    <3> QED
      BY <3>3 DEF x, y
  <2> QED
    BY <2>3, <2>5, <2>6
<1>9. p \in Seq(PieceType) /\ Len(p) = m /\ DOMAIN p = 1 .. m
  <2>1. p \in [1 .. m -> PieceType]
    BY <1>7, <1>8
  <2>2. \A k \in Nat : \A x \in [1 .. k -> PieceType] : x \in Seq(PieceType) /\ Len(x) = k /\ DOMAIN x = 1 .. k
    OBVIOUS
  <2> QED
    BY <1>4, <2>1, <2>2, Zenon
<1>10. \A n \in 1 .. m : StartOf(p, n) = cuts[n] + 1
  <2> TAKE n \in 1 .. m
  <2>1. CASE n = 1
    BY <1>4, <1>5, <2>1 DEF StartOf
  <2>2. CASE n # 1
    <3>1. n - 1 \in 1 .. m /\ (n - 1) + 1 = n
      BY <1>4, <2>2
    <3>2. p[n - 1].end = cuts[n]
      BY <1>8, <3>1
    <3> QED
      BY <2>2, <3>2 DEF StartOf
  <2> QED
    BY <2>1, <2>2
<1>11. \A n \in 1 .. m : /\ cuts[n] + 1 \in 1 .. Len(text) + 1
                         /\ cuts[n + 1] = Before(text, cuts[n] + 1, marks)
  <2> TAKE n \in 1 .. m
  <2> DEFINE a == cuts[n] + 1
             b == cuts[n + 1]
  <2>1. /\ a \in 1 .. Len(text) + 1 /\ b \in a .. Len(text) + 1
        /\ (b <= Len(text) => text[b] \in marks) /\ \A j \in a .. b - 1 : text[j] \notin marks
    BY <1>1, <1>6
  <2> HIDE DEF a, b
  <2>2. b = Before(text, a, marks)
    BY <2>1, BeforeIs
  <2> QED
    BY <2>1, <2>2 DEF a, b
<1>12. p[m].end = Len(text) + 1 /\ \A n \in 1 .. m - 1 : p[n].end <= Len(text)
  <2>1. m \in 1 .. m /\ \A n \in 1 .. m - 1 : n \in 1 .. m /\ n # m
    BY <1>4
  <2> QED
    BY <1>5, <1>6, <1>8, <2>1
<1>13. \A n \in 1 .. m : /\ StartOf(p, n) \in 1 .. Len(text) + 1
                         /\ p[n].end = Before(text, StartOf(p, n), marks)
                         /\ p[n].text = SubSeq(text, StartOf(p, n), p[n].end - 1)
                         /\ p[n].text \in Texts /\ p[n].end \in 1 .. Len(text) + 1
  BY <1>6, <1>8, <1>10, <1>11
<1> QED
  BY <1>4, <1>9, <1>12, <1>13 DEF p

-------------------------------------------------------------------------------
(* What the parser makes of a text *)

LEMMA NullIsNone == Null \notin Texts
BY UriAssumption

LEMMA WordTypes ==
    /\ Alnum \subseteq Token /\ DOMAIN Value \subseteq Alnum
    /\ \A w \in Alnum : Lower[w] \in Alnum /\ Lower[w] \in Token
BY UriAssumption

LEMMA MarkTypes ==
    /\ \A c \in {SLASH, QUESTION_MARK, HASHTAG, AT, COLON, "[", "]", "%", "="} :
         c \in Token /\ c \notin Alnum /\ Size[c] = 1
    /\ SCHEME_SEPARATOR \in Texts /\ Length(SCHEME_SEPARATOR) = 3
<1>1. \A c \in {SLASH, QUESTION_MARK, HASHTAG, AT, COLON, "[", "]", "%", "="} :
        c \in Token /\ c \notin Alnum /\ Size[c] = 1
  BY UriAssumption DEF Delimiters
<1>2. SCHEME_SEPARATOR \in Texts /\ Len(SCHEME_SEPARATOR) = 3
      /\ \A k \in 1 .. 3 : SCHEME_SEPARATOR[k] \in {COLON, SLASH}
  BY <1>1 DEF SCHEME_SEPARATOR, Texts
<1>3. Length(SCHEME_SEPARATOR) = 3
  <2>1. \A k \in 1 .. Len(SCHEME_SEPARATOR) : Size[SCHEME_SEPARATOR[k]] = 1
    BY <1>1, <1>2
  <2> QED
    BY <1>2, <2>1, LengthSingle
<1> QED
  BY <1>1, <1>2, <1>3

LEMMA PartText == \A part \in PartType : Text(part) \in Texts
BY DEF PartType, Text, Texts

LEMMA OrNullType == \A text \in Texts : OrNull(text) \in PartType
BY DEF PartType, OrNull

LEMMA TextOrNull == \A text \in Texts : Text(OrNull(text)) = text
BY NullIsNone DEF Text, OrNull

LEMMA LoweredType ==
    ASSUME NEW text \in Texts
    PROVE  /\ Lowered(text) \in Texts /\ Len(Lowered(text)) = Len(text)
           /\ \A k \in 1 .. Len(text) :
                Lowered(text)[k] = IF text[k] \in Alnum THEN Lower[text[k]] ELSE text[k]
<1>1. Len(text) \in Nat /\ DOMAIN text = 1 .. Len(text) /\ \A k \in 1 .. Len(text) : text[k] \in Token
  BY TextFacts
<1>2. Lowered(text) = [k \in 1 .. Len(text) |-> IF text[k] \in Alnum THEN Lower[text[k]] ELSE text[k]]
  BY <1>1 DEF Lowered
<1>3. Lowered(text) \in [1 .. Len(text) -> Token]
  BY <1>1, <1>2, WordTypes
<1>4. \A n \in Nat : \A x \in [1 .. n -> Token] : x \in Texts /\ Len(x) = n
  BY DEF Texts
<1> QED
  BY <1>1, <1>2, <1>3, <1>4

(* Where the parser finds things *)
LEMMA PlacesAre ==
    ASSUME NEW text \in Texts, SchemeEnd(text) # 0
    PROVE  LET p == Places(text)
           IN  /\ p.start = SchemeEnd(text) + 3 /\ p.start \in 4 .. Len(text) + 1
               /\ p.at = Find(AT, text, p.start)
               /\ p.host = (IF p.at = 0 THEN p.start ELSE p.at + 1)
               /\ p.host \in p.start .. Len(text) + 1 /\ p.host \in 1 .. Len(text) + 1
               /\ p.v6 = (p.host <= Len(text) /\ text[p.host] = "[") /\ p.v6 \in BOOLEAN
               /\ p.close = Find("]", text, p.host)
               /\ p.colon = (IF p.v6 /\ p.close # 0 /\ Find(COLON, text, p.host) # 0
                             THEN Find(COLON, text, p.close) ELSE Find(COLON, text, p.host))
               /\ p.path = Find(SLASH, text, p.host)
               /\ p.query = Find(QUESTION_MARK, text, p.host)
               /\ p.fragment = Find(HASHTAG, text, p.host)
<1> DEFINE start == SchemeEnd(text) + 3
           at == Find(AT, text, start)
           host == IF at = 0 THEN start ELSE at + 1
<1>1. Len(text) \in Nat /\ start \in 4 .. Len(text) + 1 /\ start \in Nat \ {0}
  BY SchemeFound, TextFacts
<1>2. at \in 0 .. Len(text) /\ (at # 0 => at \in start .. Len(text))
  <2> HIDE DEF start
  <2> QED
    BY <1>1, Found
<1>3. host \in start .. Len(text) + 1 /\ host \in 1 .. Len(text) + 1
  <2> HIDE DEF start, at
  <2> QED
    BY <1>1, <1>2
<1>4. Places(text) = PlacesBehind(text, start, at, host)
  BY DEF Places, PlacesFrom, PlacesAfterUser
<1> HIDE DEF start, at, host
<1> DEFINE q == PlacesBehind(text, start, at, host)
<1>5. /\ q.start = start /\ q.at = at /\ q.host = host
      /\ q.v6 = (host <= Len(text) /\ text[host] = "[")
      /\ q.close = Find("]", text, host)
      /\ q.colon = (IF (host <= Len(text) /\ text[host] = "[") /\ Find("]", text, host) # 0 /\ Find(COLON, text, host) # 0
                    THEN Find(COLON, text, Find("]", text, host)) ELSE Find(COLON, text, host))
      /\ q.path = Find(SLASH, text, host)
      /\ q.query = Find(QUESTION_MARK, text, host)
      /\ q.fragment = Find(HASHTAG, text, host)
  BY Zenon DEF PlacesBehind
<1>6. q.v6 \in BOOLEAN
  BY <1>5
<1>7. at = Find(AT, text, start) /\ host = (IF at = 0 THEN start ELSE at + 1) /\ start = SchemeEnd(text) + 3
  BY DEF start, at, host
<1> HIDE DEF q
<1>8. Places(text) = q
  BY <1>4 DEF q
<1> QED
  BY <1>1, <1>3, <1>5, <1>6, <1>7, <1>8, Zenon

(* The searches from the host on *)
LEMMA PlacesFound ==
    ASSUME NEW text \in Texts, SchemeEnd(text) # 0
    PROVE  LET p == Places(text)
           IN  /\ p.at \in 0 .. Len(text) /\ (p.at # 0 => p.at \in p.start .. Len(text))
               /\ \A f \in {p.close, p.colon, p.path, p.query, p.fragment} :
                    /\ f \in 0 .. Len(text)
                    /\ f # 0 => f \in p.host .. Len(text)
<1> DEFINE p == Places(text)
<1>1. /\ p.start \in 4 .. Len(text) + 1 /\ p.at = Find(AT, text, p.start)
      /\ p.host \in 1 .. Len(text) + 1
      /\ p.close = Find("]", text, p.host)
      /\ p.colon = (IF p.v6 /\ p.close # 0 /\ Find(COLON, text, p.host) # 0
                    THEN Find(COLON, text, p.close) ELSE Find(COLON, text, p.host))
      /\ p.path = Find(SLASH, text, p.host)
      /\ p.query = Find(QUESTION_MARK, text, p.host)
      /\ p.fragment = Find(HASHTAG, text, p.host)
  BY PlacesAre
<1> HIDE DEF p
<1>2. Len(text) \in Nat /\ p.start \in Nat \ {0} /\ p.host \in Nat \ {0}
  BY <1>1, TextFacts
<1>3. \A c : \A from \in Nat \ {0} :
        /\ Find(c, text, from) \in 0 .. Len(text)
        /\ Find(c, text, from) # 0 => Find(c, text, from) \in from .. Len(text)
  BY Found
<1>4. p.at \in 0 .. Len(text) /\ (p.at # 0 => p.at \in p.start .. Len(text))
  BY <1>1, <1>2, <1>3
<1>5. \A f \in {p.close, p.path, p.query, p.fragment} : f \in 0 .. Len(text) /\ (f # 0 => f \in p.host .. Len(text))
  BY <1>1, <1>2, <1>3
<1>6. p.colon \in 0 .. Len(text) /\ (p.colon # 0 => p.colon \in p.host .. Len(text))
  <2>1. CASE p.v6 /\ p.close # 0 /\ Find(COLON, text, p.host) # 0
    <3>1. p.colon = Find(COLON, text, p.close) /\ p.close \in Nat \ {0} /\ p.close >= p.host
      BY <1>1, <1>2, <1>5, <2>1
    <3>2. p.colon \in 0 .. Len(text) /\ (p.colon # 0 => p.colon \in p.close .. Len(text))
      BY <1>3, <3>1
    <3> QED
      BY <1>2, <3>1, <3>2
  <2>2. CASE ~(p.v6 /\ p.close # 0 /\ Find(COLON, text, p.host) # 0)
    <3>1. p.colon = Find(COLON, text, p.host)
      BY <1>1, <2>2
    <3> QED
      BY <1>2, <1>3, <3>1
  <2> QED
    BY <2>1, <2>2
<1> QED
  BY <1>4, <1>5, <1>6 DEF p

(* The texts that are taken out are texts *)
LEMMA ParsedTexts ==
    ASSUME NEW text \in Texts, SchemeEnd(text) # 0
    PROVE  LET p == Places(text)
           IN  /\ PortEnd(text, p) \in 0 .. Len(text) + 1
               /\ PortText(text, p) \in Texts /\ HostText(text, p) \in Texts
               /\ UserEnd(text, p) \in 0 .. p.at
               /\ Username(text, p) \in Texts /\ Password(text, p) \in Texts
               /\ QueryEnd(text, p) \in 0 .. Len(text) /\ PathEnd(text, p) \in 0 .. Len(text)
<1> DEFINE p == Places(text)
<1>1. /\ p.start \in 4 .. Len(text) + 1 /\ p.host \in 1 .. Len(text) + 1 /\ p.v6 \in BOOLEAN
      /\ p.at \in 0 .. Len(text)
      /\ \A f \in {p.close, p.colon, p.path, p.query, p.fragment} : f \in 0 .. Len(text)
  BY PlacesAre, PlacesFound
<1> HIDE DEF p
<1>2. Len(text) \in Nat /\ p.start \in Nat \ {0} /\ p.host \in Nat \ {0}
  BY <1>1, TextFacts
<1>3. \A i \in Nat \ {0} : \A j \in Int : j <= Len(text) => SubSeq(text, i, j) \in Texts
  BY Sub
<1>4. <<>> \in Texts
  BY DEF Texts
<1>5. PortEnd(text, p) \in 0 .. Len(text) + 1
  BY <1>1, <1>2 DEF PortEnd, Or
<1>6. PortText(text, p) \in Texts
  <2>1. p.colon + 1 \in Nat \ {0} /\ PortEnd(text, p) - 1 \in Int /\ PortEnd(text, p) - 1 <= Len(text)
    BY <1>1, <1>2, <1>5
  <2> QED
    BY <1>3, <1>4, <2>1 DEF PortText
<1>7. HostText(text, p) \in Texts
  <2>1. p.host + 1 \in Nat \ {0} /\ p.close - 1 \in Int /\ p.close - 1 <= Len(text)
    BY <1>1, <1>2
  <2> DEFINE e == IF HasPort(text, p) THEN p.colon ELSE Or(p.path, Or(p.query, Or(p.fragment, Len(text) + 1)))
  <2>2. e \in 0 .. Len(text) + 1
    BY <1>1, <1>2 DEF Or
  <2>3. HostText(text, p) = IF p.v6 THEN SubSeq(text, p.host + 1, p.close - 1) ELSE SubSeq(text, p.host, e - 1)
    BY DEF HostText
  <2> HIDE DEF e
  <2>4. e - 1 \in Int /\ e - 1 <= Len(text)
    BY <1>2, <2>2
  <2> QED
    BY <1>2, <1>3, <2>1, <2>3, <2>4
<1>8. UserEnd(text, p) \in 0 .. p.at
  <2>1. Find(COLON, text, p.start) \in 0 .. Len(text)
    BY <1>2, Found
  <2> QED
    BY <1>1, <2>1 DEF UserEnd
<1>9. Username(text, p) \in Texts /\ Password(text, p) \in Texts
  <2>1. /\ UserEnd(text, p) - 1 \in Int /\ UserEnd(text, p) - 1 <= Len(text)
        /\ UserEnd(text, p) + 1 \in Nat \ {0} /\ p.at - 1 \in Int /\ p.at - 1 <= Len(text)
    <3> DEFINE u == UserEnd(text, p)
    <3>1. p.at \in 0 .. Len(text) /\ u \in 0 .. p.at
      BY <1>1, <1>8
    <3> HIDE DEF u
    <3>2. u - 1 \in Int /\ u - 1 <= Len(text) /\ u + 1 \in Nat \ {0} /\ p.at - 1 \in Int /\ p.at - 1 <= Len(text)
      BY <1>2, <3>1
    <3> QED
      BY <3>2 DEF u
  <2> QED
    BY <1>2, <1>3, <1>4, <2>1 DEF Username, Password
<1>10. QueryEnd(text, p) \in 0 .. Len(text) /\ PathEnd(text, p) \in 0 .. Len(text)
  BY <1>1, <1>2 DEF QueryEnd, PathEnd
<1> QED
  BY <1>5, <1>6, <1>7, <1>8, <1>9, <1>10 DEF p

(* What a text is that the parser takes *)
Accepts(text, p) ==
    /\ SchemeEnd(text) \notin {0, 1}
    /\ SchemeIsValid(SubSeq(text, 1, SchemeEnd(text) - 1))
    /\ ~(p.v6 /\ p.close = 0)
    /\ PortIsValid(PortText(text, p))
    /\ p.v6 => AddressIsValid(HostText(text, p))
    /\ ~p.v6 => HostnameIsValid(HostText(text, p))
    /\ p.query # 0 => ~(QueryEnd(text, p) < p.query)
    /\ p.path # 0 => ~(PathEnd(text, p) < p.path)

LEMMA SuccessIs ==
    \A text : (ParseCode(text) = "SUCCESS") <=> Accepts(text, Places(text))
<1> TAKE text
<1> DEFINE p == Places(text)
<1>1. ParseCode(text) = CodeOf(text, SchemeEnd(text), p, HostText(text, p))
  BY DEF ParseCode, CodeAt
<1> HIDE DEF p
<1>2. (CodeOf(text, SchemeEnd(text), p, HostText(text, p)) = "SUCCESS") <=> Accepts(text, p)
  BY DEF CodeOf, Accepts
<1> QED
  BY <1>1, <1>2 DEF p

AuthIsUser(parsed) == parsed.has_authentication <=> parsed.username # Null \/ parsed.password # Null

LEMMA NoUriType == NoUri \in UriType /\ AuthIsUser(NoUri)
BY UriAssumption DEF NoUri, UriType, PartType, AuthIsUser

LEMMA PartAfterType ==
    ASSUME NEW text \in Texts, NEW place \in Nat, NEW last \in 0 .. Len(text)
    PROVE  PartAfter(text, place, last) \in PartType
<1>1. place + 1 \in Nat \ {0} /\ last \in Int /\ last <= Len(text)
  BY TextFacts
<1>2. SubSeq(text, place + 1, last) \in Texts
  BY <1>1, Sub
<1> QED
  BY <1>2, OrNullType DEF PartAfter, PartType

(* The fields of what was parsed *)
LEMMA PartsAre ==
    ASSUME NEW text
    PROVE  LET p == Places(text)
               u == parse_uri(text)
           IN  /\ u.scheme = Lowered(SubSeq(text, 1, SchemeEnd(text) - 1))
               /\ u.username = OrNull(Username(text, p)) /\ u.password = OrNull(Password(text, p))
               /\ u.has_authentication = (Username(text, p) # <<>> \/ Password(text, p) # <<>>)
               /\ u.hostname = (IF p.v6 THEN HostText(text, p) ELSE Lowered(HostText(text, p)))
               /\ u.is_ipv6 = p.v6
               /\ u.port = (IF PortText(text, p) = <<>> THEN 0 ELSE AtoI(PortText(text, p)))
               /\ u.path = PartAfter(text, p.path, PathEnd(text, p))
               /\ u.query = PartAfter(text, p.query, QueryEnd(text, p))
               /\ u.fragment = PartAfter(text, p.fragment, Len(text))
               /\ u = [scheme |-> u.scheme, username |-> u.username, password |-> u.password,
                       has_authentication |-> u.has_authentication, hostname |-> u.hostname,
                       is_ipv6 |-> u.is_ipv6, port |-> u.port, path |-> u.path, query |-> u.query,
                       fragment |-> u.fragment]
<1> DEFINE p == Places(text)
<1>1. parse_uri(text) = PartsAt(text, p)
  BY DEF parse_uri
<1> HIDE DEF p
<1> QED
  BY <1>1 DEF PartsAt, p

(* A URL that was parsed with success has a scheme and a host, its port is one *)
(* that a socket can have, and its path ends at the "?"                       *)
LEMMA ParsedType ==
    ASSUME NEW text \in Texts, ParseCode(text) = "SUCCESS"
    PROVE  /\ parse_uri(text) \in UriType /\ AuthIsUser(parse_uri(text))
           /\ IsParsed(parse_uri(text))
<1> DEFINE p == Places(text)
           s == SubSeq(text, 1, SchemeEnd(text) - 1)
           u == parse_uri(text)
<1>1. Accepts(text, p)
  BY SuccessIs
<1>2. SchemeEnd(text) \notin {0, 1} /\ Len(text) \in Nat /\ SchemeEnd(text) \in 1 .. Len(text) - 2
  BY <1>1, SchemeFound, TextFacts DEF Accepts
<1>3. /\ p.v6 \in BOOLEAN /\ p.host \in 1 .. Len(text) + 1
      /\ p.path = Find(SLASH, text, p.host) /\ p.query = Find(QUESTION_MARK, text, p.host)
  BY <1>2, PlacesAre
<1>4. \A f \in {p.close, p.colon, p.path, p.query, p.fragment} :
                    f \in 0 .. Len(text) /\ (f # 0 => f \in p.host .. Len(text))
  BY <1>2, PlacesFound
<1>5. /\ PortText(text, p) \in Texts /\ HostText(text, p) \in Texts
      /\ Username(text, p) \in Texts /\ Password(text, p) \in Texts
      /\ QueryEnd(text, p) \in 0 .. Len(text) /\ PathEnd(text, p) \in 0 .. Len(text)
  BY <1>2, ParsedTexts
<1> HIDE DEF p
<1>6. /\ u.scheme = Lowered(s)
      /\ u.username = OrNull(Username(text, p)) /\ u.password = OrNull(Password(text, p))
      /\ u.has_authentication = (Username(text, p) # <<>> \/ Password(text, p) # <<>>)
      /\ u.hostname = (IF p.v6 THEN HostText(text, p) ELSE Lowered(HostText(text, p)))
      /\ u.is_ipv6 = p.v6
      /\ u.port = (IF PortText(text, p) = <<>> THEN 0 ELSE AtoI(PortText(text, p)))
      /\ u.path = PartAfter(text, p.path, PathEnd(text, p))
      /\ u.query = PartAfter(text, p.query, QueryEnd(text, p))
      /\ u.fragment = PartAfter(text, p.fragment, Len(text))
      /\ u = [scheme |-> u.scheme, username |-> u.username, password |-> u.password,
              has_authentication |-> u.has_authentication, hostname |-> u.hostname,
              is_ipv6 |-> u.is_ipv6, port |-> u.port, path |-> u.path, query |-> u.query,
              fragment |-> u.fragment]
  BY PartsAre DEF p
<1> HIDE DEF u
<1>7. u.scheme \in Texts \ {<<>>}
  <2>1. s \in Texts /\ Len(s) = SchemeEnd(text) - 1 /\ Len(s) # 0
    <3>1. SchemeEnd(text) - 1 \in Nat \ {0} /\ SchemeEnd(text) - 1 <= Len(text) /\ 1 \in Nat \ {0}
      BY <1>2
    <3>2. s \in Texts /\ Len(s) = IF 1 <= SchemeEnd(text) - 1 THEN (SchemeEnd(text) - 1) - 1 + 1 ELSE 0
      BY <3>1, Sub
    <3> HIDE DEF s
    <3>3. Len(s) = SchemeEnd(text) - 1
      BY <3>1, <3>2
    <3> QED
      BY <3>1, <3>2, <3>3
  <2> HIDE DEF s
  <2>2. Lowered(s) \in Texts /\ Len(Lowered(s)) = Len(s)
    BY <2>1, LoweredType
  <2>3. Len(<<>>) = 0
    OBVIOUS
  <2> QED
    BY <1>6, <2>1, <2>2, <2>3
<1>8. u.hostname \in Texts \ {<<>>}
  <2> DEFINE h == HostText(text, p)
  <2>1. Length(h) # 0
    <3>1. Length(h) \in Nat /\ MinHostname \in Nat \ {0} /\ MinAddress \in Nat \ {0}
      BY <1>5, LengthType, UriAssumption
    <3>2. Length(h) \in MinHostname .. MaxHostname \/ Length(h) \in MinAddress .. MaxAddress
      BY <1>1, <1>3 DEF Accepts, HostnameIsValid, AddressIsValid
    <3> QED
      BY <3>1, <3>2
  <2>2. h \in Texts /\ h # <<>>
    BY <1>5, <2>1, LengthNone
  <2> HIDE DEF h
  <2>3. Lowered(h) \in Texts /\ Len(Lowered(h)) = Len(h)
    BY <2>2, LoweredType
  <2>4. Lowered(h) # <<>>
    BY <2>2, <2>3 DEF Texts
  <2> QED
    BY <1>6, <2>2, <2>3, <2>4 DEF h
<1>9. u.port \in 0 .. MaxPort
  <2>1. MaxPort \in Nat
    BY UriAssumption
  <2> QED
    BY <1>1, <1>6, <2>1 DEF Accepts, PortIsValid
<1>10. u.username \in PartType /\ u.password \in PartType /\ u.has_authentication \in BOOLEAN
  BY <1>5, <1>6, OrNullType
<1>11. u.path \in PartType /\ u.query \in PartType /\ u.fragment \in PartType
  <2>1. p.path \in Nat /\ p.query \in Nat /\ p.fragment \in Nat /\ Len(text) \in 0 .. Len(text)
    BY <1>2, <1>4
  <2> QED
    BY <1>5, <1>6, <2>1, PartAfterType
<1>12. u \in UriType
  <2>1. u.scheme \in PartType /\ u.hostname \in PartType /\ u.is_ipv6 \in BOOLEAN
    BY <1>3, <1>6, <1>7, <1>8 DEF PartType
  <2> QED
    BY <1>6, <1>9, <1>10, <1>11, <2>1, Zenon DEF UriType
<1>13. AuthIsUser(u)
  <2>1. \A t \in Texts : OrNull(t) # Null <=> t # <<>>
    BY NullIsNone DEF OrNull
  <2> QED
    BY <1>5, <1>6, <2>1 DEF AuthIsUser
<1>14. IsParsed(u)
  <2>1. u.scheme # Null /\ u.hostname # Null
    BY <1>7, <1>8, NullIsNone
  <2>2. CASE p.path = 0
    <3>1. Text(u.path) = <<>> /\ ToSet(<<>>) = {}
      BY <1>6, <2>2 DEF PartAfter, Text, ToSet
    <3> QED
      BY <2>1, <3>1 DEF IsParsed
  <2>3. CASE p.path # 0
    <3> DEFINE x == SubSeq(text, p.path + 1, PathEnd(text, p))
    <3>1. p.path \in p.host .. Len(text) /\ p.path + 1 \in Nat \ {0} /\ PathEnd(text, p) \in Int /\ PathEnd(text, p) <= Len(text)
      BY <1>2, <1>3, <1>4, <1>5, <2>3
    <3>2. /\ x \in Texts
          /\ Len(x) = IF p.path + 1 <= PathEnd(text, p) THEN PathEnd(text, p) - (p.path + 1) + 1 ELSE 0
          /\ \A k \in 1 .. PathEnd(text, p) - (p.path + 1) + 1 : x[k] = text[(p.path + 1) + k - 1]
      BY <3>1, Sub
    <3>3. \A k \in p.path + 1 .. PathEnd(text, p) : text[k] # QUESTION_MARK
      <4> TAKE k \in p.path + 1 .. PathEnd(text, p)
      <4>1. k \in p.host .. Len(text) /\ k \in Int
        BY <1>3, <3>1
      <4>2. p.query # 0 => k \in p.host .. p.query - 1
        BY <1>4, <3>1, <4>1 DEF PathEnd
      <4>3. /\ p.query = 0 => \A j \in p.host .. Len(text) : text[j] # QUESTION_MARK
            /\ p.query # 0 => \A j \in p.host .. p.query - 1 : text[j] # QUESTION_MARK
        BY <1>3, Found
      <4> QED
        BY <4>1, <4>2, <4>3
    <3>4. \A k \in 1 .. Len(x) : x[k] # QUESTION_MARK
      <4> TAKE k \in 1 .. Len(x)
      <4>1. /\ k \in 1 .. PathEnd(text, p) - (p.path + 1) + 1
            /\ (p.path + 1) + k - 1 \in p.path + 1 .. PathEnd(text, p)
        <5> DEFINE a == p.path  e == PathEnd(text, p)
        <5>1. /\ a \in Int /\ e \in Int /\ k \in 1 .. Len(x)
              /\ Len(x) = IF a + 1 <= e THEN e - (a + 1) + 1 ELSE 0
          BY <3>1, <3>2
        <5> HIDE DEF x, a, e
        <5>2. k \in 1 .. e - (a + 1) + 1 /\ (a + 1) + k - 1 \in a + 1 .. e
          BY <5>1
        <5> QED
          BY <5>2 DEF a, e
      <4> QED
        BY <3>2, <3>3, <4>1
    <3>5. Text(u.path) = x
      BY <1>6, <2>3, <3>2, TextOrNull DEF PartAfter
    <3>6. QUESTION_MARK \notin ToSet(x)
      <4>1. DOMAIN x = 1 .. Len(x)
        BY <3>2, TextFacts
      <4> HIDE DEF x
      <4> QED
        BY <3>4, <4>1 DEF ToSet
    <3> QED
      BY <2>1, <3>5, <3>6 DEF IsParsed
  <2> QED
    BY <2>2, <2>3
<1> QED
  BY <1>12, <1>13, <1>14 DEF u

LEMMA UriParseType ==
    ASSUME NEW text \in Texts
    PROVE  /\ uri_parse(text).uri \in UriType /\ AuthIsUser(uri_parse(text).uri)
           /\ uri_parse(text).code = ParseCode(text)
           /\ uri_parse(text).code = "SUCCESS" =>
                uri_parse(text).uri = parse_uri(text) /\ IsParsed(uri_parse(text).uri)
BY ParsedType, NoUriType DEF uri_parse, ParseResult

LEMMA RebuiltType == \A query \in PartType : Rebuilt(query) \in PartType
<1> TAKE query \in PartType
<1>1. "=" \in Token
  BY MarkTypes
<1>2. CASE query = Null
  BY <1>2 DEF Rebuilt
<1>3. CASE query # Null
  <2>1. query \in Texts
    BY <1>3 DEF PartType
  <2>2. Append(query, "=") \in Texts \ {<<>>}
    BY <1>1, <2>1 DEF Texts
  <2> QED
    BY <2>2 DEF Rebuilt, PartType
<1> QED
  BY <1>2, <1>3

-------------------------------------------------------------------------------
(* Numbers *)

LEMMA Powers ==
    /\ \A j \in 0 .. 9 : 10^j \in Nat \ {0}
    /\ \A j \in 0 .. 8 : 10^(j + 1) = 10 * 10^j
    /\ 10^0 = 1
<1>1. /\ 10^0 = 1 /\ 10^1 = 10 /\ 10^2 = 100 /\ 10^3 = 1000 /\ 10^4 = 10000 /\ 10^5 = 100000
      /\ 10^6 = 1000000 /\ 10^7 = 10000000 /\ 10^8 = 100000000 /\ 10^9 = 1000000000
  OBVIOUS
<1>2. \A j \in 0 .. 9 : 10^j \in Nat \ {0}
  <2> TAKE j \in 0 .. 9
  <2>1. CASE j = 0
    BY <1>1, <2>1
  <2>2. CASE j = 1
    BY <1>1, <2>2
  <2>3. CASE j = 2
    BY <1>1, <2>3
  <2>4. CASE j = 3
    BY <1>1, <2>4
  <2>5. CASE j = 4
    BY <1>1, <2>5
  <2>6. CASE j = 5
    BY <1>1, <2>6
  <2>7. CASE j = 6
    BY <1>1, <2>7
  <2>8. CASE j = 7
    BY <1>1, <2>8
  <2>9. CASE j = 8
    BY <1>1, <2>9
  <2>10. CASE j = 9
    BY <1>1, <2>10
  <2> QED
    BY <2>1, <2>2, <2>3, <2>4, <2>5, <2>6, <2>7, <2>8, <2>9, <2>10
<1>3. ASSUME NEW j \in 0 .. 8 PROVE 10^(j + 1) = 10 * 10^j
  <2>1. CASE j = 0
    BY <1>1, <2>1
  <2>2. CASE j = 1
    BY <1>1, <2>2
  <2>3. CASE j = 2
    BY <1>1, <2>3
  <2>4. CASE j = 3
    BY <1>1, <2>4
  <2>5. CASE j = 4
    BY <1>1, <2>5
  <2>6. CASE j = 5
    BY <1>1, <2>6
  <2>7. CASE j = 6
    BY <1>1, <2>7
  <2>8. CASE j = 7
    BY <1>1, <2>8
  <2>9. CASE j = 8
    BY <1>1, <2>9
  <2> QED
    BY <2>1, <2>2, <2>3, <2>4, <2>5, <2>6, <2>7, <2>8, <2>9
<1> QED
  BY <1>1, <1>2, <1>3

LEMMA IntLen ==
    ASSUME NEW n \in 0 .. MaxPort
    PROVE  /\ intlen(n) \in 1 .. 9 /\ n < 10^intlen(n)
           /\ intlen(n) # 1 => n >= 10^(intlen(n) - 1)
<1> DEFINE hits == {k \in 1 .. 9 : n < 10^k}
<1>1. MaxPort \in Nat /\ n \in Nat /\ n < 10^9
  <2>1. MaxPort \in Nat /\ MaxPort < 10^9
    BY UriAssumption
  <2>2. 10^9 \in Nat
    BY Powers
  <2> QED
    BY <2>1, <2>2
<1>2. 9 \in hits /\ hits \in SUBSET Nat /\ intlen(n) = Min(hits)
  BY <1>1 DEF intlen
<1>3. intlen(n) \in hits /\ \A m \in hits : intlen(n) <= m
  <2> HIDE DEF hits
  <2> QED
    BY <1>2, MinOf
<1>4. intlen(n) # 1 => n >= 10^(intlen(n) - 1)
  <2> SUFFICES ASSUME intlen(n) # 1 PROVE n >= 10^(intlen(n) - 1)
    OBVIOUS
  <2> DEFINE k == intlen(n) - 1
  <2>1. k \in 1 .. 9 /\ k \notin hits
    BY <1>3
  <2>2. ~(n < 10^k)
    BY <2>1
  <2>3. 10^k \in Nat
    <3> HIDE DEF k
    <3>1. k \in 0 .. 9
      BY <2>1
    <3> QED
      BY <3>1, Powers
  <2> HIDE DEF k
  <2>4. n >= 10^k
    BY <1>1, <2>2, <2>3
  <2> QED
    BY <2>4 DEF k
<1> QED
  BY <1>3, <1>4

(* The digits of a number are as many as intlen makes room for *)
LEMMA DigitsAre ==
    ASSUME NEW n \in 0 .. MaxPort
    PROVE  /\ Digits(n) \in Texts /\ Len(Digits(n)) = intlen(n) /\ Length(Digits(n)) = intlen(n)
           /\ \A k \in 1 .. intlen(n) :
                /\ Digits(n)[k] \in DOMAIN Value /\ Size[Digits(n)[k]] = 1
                /\ Value[Digits(n)[k]] = (n \div 10^(intlen(n) - k)) % 10
<1> DEFINE d == intlen(n)
           digit(k) == (n \div 10^(d - k)) % 10
           word(k) == CHOOSE w \in DOMAIN Value : Size[w] = 1 /\ Value[w] = digit(k)
<1>1. d \in 1 .. 9 /\ n \in Nat
  BY IntLen
<1>2. Digits(n) = [k \in 1 .. d |-> word(k)]
  BY DEF Digits
<1> HIDE DEF d
<1>3. ASSUME NEW k \in 1 .. d
      PROVE  word(k) \in DOMAIN Value /\ Size[word(k)] = 1 /\ Value[word(k)] = digit(k)
  <2>1. digit(k) \in 0 .. 9
    <3> DEFINE q == 10^(d - k)
    <3>1. d - k \in 0 .. 9
      BY <1>1
    <3>2. q \in Nat \ {0}
      BY <3>1, Powers
    <3> HIDE DEF q
    <3>3. n \div q \in Nat
      BY <1>1, <3>2
    <3>4. \A m \in Nat : m % 10 \in 0 .. 9
      OBVIOUS
    <3> QED
      BY <3>3, <3>4 DEF q
  <2> HIDE DEF digit
  <2>2. \E w \in DOMAIN Value : Size[w] = 1 /\ Value[w] = digit(k)
    BY <2>1, UriAssumption
  <2> QED
    BY <2>2, Zenon
<1> HIDE DEF word, digit
<1>4. \A k \in 1 .. d : word(k) \in Token
  BY <1>3, WordTypes
<1>5. Digits(n) \in Texts /\ Len(Digits(n)) = d /\ \A k \in 1 .. d : Digits(n)[k] = word(k)
  <2>1. Digits(n) \in [1 .. d -> Token]
    BY <1>2, <1>4
  <2>2. \A m \in Nat : \A x \in [1 .. m -> Token] : x \in Texts /\ Len(x) = m
    BY DEF Texts
  <2> QED
    BY <1>1, <1>2, <2>1, <2>2
<1>6. Length(Digits(n)) = d
  BY <1>3, <1>5, LengthSingle
<1> QED
  BY <1>3, <1>5, <1>6 DEF d, digit

-------------------------------------------------------------------------------
(* What is printed, and the room made for it *)

LEMMA RoomIs ==
    ASSUME NEW part \in PartType
    PROVE  /\ RoomFor(0, part) = Length(Text(part)) /\ Length(Text(part)) \in Nat
           /\ \A c \in Token : Size[c] = 1 =>
                Prefixed(c, part) \in Texts /\ Length(Prefixed(c, part)) = RoomFor(1, part)
<1>1. RoomFor(0, part) = Length(Text(part)) /\ Length(Text(part)) \in Nat
  <2>1. CASE part = Null
    BY <2>1, LengthNone DEF RoomFor, Text
  <2>2. CASE part # Null
    <3>1. part \in Texts /\ Length(part) \in Nat
      BY <2>2, LengthType DEF PartType
    <3> QED
      BY <2>2, <3>1 DEF RoomFor, Text
  <2> QED
    BY <2>1, <2>2
<1>2. ASSUME NEW c \in Token, Size[c] = 1
      PROVE  Prefixed(c, part) \in Texts /\ Length(Prefixed(c, part)) = RoomFor(1, part)
  <2>1. CASE part = Null
    <3>1. Prefixed(c, part) = <<>> /\ RoomFor(1, part) = 0 /\ <<>> \in Texts
      BY <2>1 DEF Prefixed, RoomFor, Texts
    <3> QED
      BY <3>1, LengthNone
  <2>2. CASE part # Null
    <3>1. part \in Texts /\ <<c>> \in Texts /\ Length(<<c>>) = 1 /\ Length(part) \in Nat
      BY <1>2, <2>2, LengthOne, LengthType DEF PartType
    <3>2. Prefixed(c, part) = <<c>> \o part /\ RoomFor(1, part) = 1 + Length(part)
      BY <2>2 DEF Prefixed, RoomFor
    <3>3. <<c>> \o part \in Texts /\ Length(<<c>> \o part) = Length(<<c>>) + Length(part)
      BY <3>1, LengthConcat
    <3> QED
      BY <3>1, <3>2, <3>3
  <2> QED
    BY <2>1, <2>2
<1> QED
  BY <1>1, <1>2

(* uri_stringify prints as many characters as it made room for *)
LEMMA PrintedFits ==
    ASSUME NEW parsed \in UriType, parsed.scheme # Null, parsed.hostname # Null
    PROVE  uri_stringify(parsed) \in Texts /\ Length(uri_stringify(parsed)) = MemSize(parsed)
<1> DEFINE user == UserInfo(parsed)
           host == IF parsed.is_ipv6 THEN <<"[">> \o parsed.hostname \o <<"]">> ELSE parsed.hostname
           port == IF parsed.port > 0 THEN <<COLON>> \o Digits(parsed.port) ELSE <<>>
           path == Text(parsed.path)
           query == Prefixed(QUESTION_MARK, parsed.query)
           fragment == Prefixed(HASHTAG, parsed.fragment)
           hostroom == Length(parsed.hostname) + (IF parsed.is_ipv6 THEN 2 ELSE 0)
           portroom == IF parsed.port > 0 THEN 1 + intlen(parsed.port) ELSE 0
<1>1. /\ parsed.scheme \in Texts /\ parsed.hostname \in Texts /\ parsed.port \in 0 .. MaxPort
      /\ parsed.username \in PartType /\ parsed.password \in PartType /\ parsed.path \in PartType
      /\ parsed.query \in PartType /\ parsed.fragment \in PartType
      /\ parsed.has_authentication \in BOOLEAN /\ parsed.is_ipv6 \in BOOLEAN
  BY DEF UriType, PartType
<1>2. /\ \A c \in {SLASH, QUESTION_MARK, HASHTAG, AT, COLON, "[", "]"} :
           c \in Token /\ Size[c] = 1 /\ <<c>> \in Texts /\ Length(<<c>>) = 1
      /\ <<>> \in Texts /\ Length(<<>>) = 0
  <2>1. \A c \in {SLASH, QUESTION_MARK, HASHTAG, AT, COLON, "[", "]"} : c \in Token /\ Size[c] = 1
    BY MarkTypes
  <2>2. <<>> \in Texts
    BY DEF Texts
  <2> QED
    BY <2>1, <2>2, LengthOne, LengthNone
<1>3. \A s, t \in Texts : /\ s \o t \in Texts /\ Length(s \o t) = Length(s) + Length(t)
                          /\ Length(s) \in Nat /\ Length(t) \in Nat
  BY LengthConcat, LengthType
<1>4. user \in Texts /\ Length(user) = UserRoom(parsed) /\ UserRoom(parsed) \in Nat
  <2> DEFINE a == Text(parsed.username)
             b == Text(parsed.password)
  <2>1. a \in Texts /\ b \in Texts /\ RoomFor(0, parsed.username) = Length(a) /\ RoomFor(0, parsed.password) = Length(b)
    BY <1>1, PartText, RoomIs
  <2>2. user = IF parsed.has_authentication THEN a \o <<COLON>> \o b \o <<AT>> ELSE <<>>
    BY DEF UserInfo
  <2>3. UserRoom(parsed) = IF parsed.has_authentication THEN Length(a) + Length(b) + 2 ELSE 0
    BY <2>1 DEF UserRoom
  <2> HIDE DEF a, b, user
  <2>4. a \o <<COLON>> \in Texts /\ Length(a \o <<COLON>>) = Length(a) + 1
    BY <1>2, <1>3, <2>1
  <2>5. a \o <<COLON>> \o b \in Texts /\ Length(a \o <<COLON>> \o b) = Length(a) + 1 + Length(b)
    BY <1>3, <2>1, <2>4
  <2>6. a \o <<COLON>> \o b \o <<AT>> \in Texts /\ Length(a \o <<COLON>> \o b \o <<AT>>) = Length(a) + 1 + Length(b) + 1
    BY <1>2, <1>3, <2>5
  <2>7. Length(a) \in Nat /\ Length(b) \in Nat
    BY <1>3, <2>1
  <2>8. CASE parsed.has_authentication
    <3>1. user = a \o <<COLON>> \o b \o <<AT>> /\ UserRoom(parsed) = Length(a) + Length(b) + 2
      BY <2>2, <2>3, <2>8
    <3> QED
      BY <2>6, <2>7, <3>1
  <2>9. CASE ~parsed.has_authentication
    <3>1. user = <<>> /\ UserRoom(parsed) = 0
      BY <2>2, <2>3, <2>9
    <3> QED
      BY <1>2, <3>1
  <2> QED
    BY <2>8, <2>9
<1>5. host \in Texts /\ Length(host) = hostroom /\ hostroom \in Nat
  <2>1. <<"[">> \o parsed.hostname \in Texts /\ Length(<<"[">> \o parsed.hostname) = 1 + Length(parsed.hostname)
    <3>1. <<"[">> \in Texts /\ Length(<<"[">>) = 1
      BY <1>2
    <3> QED
      BY <1>1, <1>3, <3>1
  <2>2. /\ <<"[">> \o parsed.hostname \o <<"]">> \in Texts
        /\ Length(<<"[">> \o parsed.hostname \o <<"]">>) = 1 + Length(parsed.hostname) + 1
    BY <1>2, <1>3, <2>1
  <2>3. Length(parsed.hostname) \in Nat
    BY <1>1, <1>3
  <2> QED
    BY <1>1, <2>2, <2>3
<1>6. port \in Texts /\ Length(port) = portroom /\ portroom \in Nat
  <2>1. Digits(parsed.port) \in Texts /\ Length(Digits(parsed.port)) = intlen(parsed.port) /\ intlen(parsed.port) \in Nat
    BY <1>1, DigitsAre, IntLen
  <2>2. <<COLON>> \o Digits(parsed.port) \in Texts /\ Length(<<COLON>> \o Digits(parsed.port)) = 1 + intlen(parsed.port)
    BY <1>2, <1>3, <2>1
  <2> QED
    BY <1>1, <1>2, <2>1, <2>2
<1>7. /\ path \in Texts /\ Length(path) = RoomFor(0, parsed.path)
      /\ query \in Texts /\ Length(query) = RoomFor(1, parsed.query)
      /\ fragment \in Texts /\ Length(fragment) = RoomFor(1, parsed.fragment)
  BY <1>1, <1>2, PartText, RoomIs
<1>8. uri_stringify(parsed)
        = parsed.scheme \o SCHEME_SEPARATOR \o user \o host \o port \o <<SLASH>> \o path \o query \o fragment
  BY DEF uri_stringify
<1>9. MemSize(parsed) = Length(parsed.scheme) + 3 + UserRoom(parsed) + Length(parsed.hostname)
        + (IF parsed.is_ipv6 THEN 2 ELSE 0) + portroom
        + 1 + RoomFor(0, parsed.path) + RoomFor(1, parsed.query) + RoomFor(1, parsed.fragment)
  BY DEF MemSize
<1>10. SCHEME_SEPARATOR \in Texts /\ Length(SCHEME_SEPARATOR) = 3
  BY MarkTypes
<1>11. hostroom = Length(parsed.hostname) + (IF parsed.is_ipv6 THEN 2 ELSE 0)
  OBVIOUS
<1> HIDE DEF user, host, port, path, query, fragment, hostroom, portroom
<1> DEFINE x1 == parsed.scheme \o SCHEME_SEPARATOR
           x2 == x1 \o user
           x3 == x2 \o host
           x4 == x3 \o port
           x5 == x4 \o <<SLASH>>
           x6 == x5 \o path
           x7 == x6 \o query
           x8 == x7 \o fragment
<1>12. x1 \in Texts /\ Length(x1) = Length(parsed.scheme) + 3
  BY <1>1, <1>3, <1>10
<1>13. x2 \in Texts /\ Length(x2) = Length(x1) + UserRoom(parsed)
  <2> HIDE DEF x1
  <2> QED
    BY <1>3, <1>4, <1>12
<1>14. x3 \in Texts /\ Length(x3) = Length(x2) + hostroom
  <2> HIDE DEF x2
  <2> QED
    BY <1>3, <1>5, <1>13
<1>15. x4 \in Texts /\ Length(x4) = Length(x3) + portroom
  <2> HIDE DEF x3
  <2> QED
    BY <1>3, <1>6, <1>14
<1>16. x5 \in Texts /\ Length(x5) = Length(x4) + 1
  <2> HIDE DEF x4
  <2> QED
    BY <1>2, <1>3, <1>15
<1>17. x6 \in Texts /\ Length(x6) = Length(x5) + RoomFor(0, parsed.path)
  <2> HIDE DEF x5
  <2> QED
    BY <1>3, <1>7, <1>16
<1>18. x7 \in Texts /\ Length(x7) = Length(x6) + RoomFor(1, parsed.query)
  <2> HIDE DEF x6
  <2> QED
    BY <1>3, <1>7, <1>17
<1>19. x8 \in Texts /\ Length(x8) = Length(x7) + RoomFor(1, parsed.fragment)
  <2> HIDE DEF x7
  <2> QED
    BY <1>3, <1>7, <1>18
<1>20. uri_stringify(parsed) = x8
  BY <1>8, Zenon
<1> HIDE DEF x1, x2, x3, x4, x5, x6, x7, x8
<1>21. /\ Length(parsed.scheme) \in Nat /\ UserRoom(parsed) \in Nat /\ hostroom \in Nat /\ portroom \in Nat
       /\ Length(parsed.hostname) \in Nat
       /\ RoomFor(0, parsed.path) \in Nat /\ RoomFor(1, parsed.query) \in Nat /\ RoomFor(1, parsed.fragment) \in Nat
  <2>1. \A t \in Texts : Length(t) \in Nat
    BY LengthType
  <2> QED
    BY <1>1, <1>4, <1>5, <1>6, <1>7, <2>1
<1>22. Length(x8) = MemSize(parsed)
  <2>1. (IF parsed.is_ipv6 THEN 2 ELSE 0) \in Nat
    OBVIOUS
  <2> DEFINE brackets == IF parsed.is_ipv6 THEN 2 ELSE 0
  <2>2. brackets \in Nat /\ hostroom = Length(parsed.hostname) + brackets
        /\ MemSize(parsed) = Length(parsed.scheme) + 3 + UserRoom(parsed) + Length(parsed.hostname)
              + brackets + portroom
              + 1 + RoomFor(0, parsed.path) + RoomFor(1, parsed.query) + RoomFor(1, parsed.fragment)
    BY <1>9, <1>11, <2>1
  <2> HIDE DEF brackets
  <2> QED
    BY <1>12, <1>13, <1>14, <1>15, <1>16, <1>17, <1>18, <1>19, <1>21, <2>2
<1> QED
  BY <1>19, <1>20, <1>22

(* The Host header has no room for its NUL when it prints the port *)
LEMMA HostHeaderFits ==
    ASSUME NEW parsed \in UriType, parsed.hostname # Null
    PROVE  LET host == HostHeader(parsed)
           IN  /\ host \in Texts /\ host # <<>>
               /\ Length(host) + 1 > HostRoom(parsed) <=> host # parsed.hostname
<1> DEFINE host == HostHeader(parsed)
           printed == \/ parsed.scheme = <<"http">>  /\ parsed.port \notin {0, HTTP_PORT}
                      \/ parsed.scheme = <<"https">> /\ parsed.port \notin {0, HTTPS_PORT}
           port == <<COLON>> \o Digits(parsed.port)
<1>1. parsed.hostname \in Texts \ {<<>>} /\ parsed.port \in 0 .. MaxPort /\ Length(parsed.hostname) \in Nat
  BY LengthType DEF UriType, PartType
<1>2. port \in Texts /\ Length(port) = 1 + intlen(parsed.port) /\ intlen(parsed.port) \in Nat \ {0}
  <2>1. Digits(parsed.port) \in Texts /\ Length(Digits(parsed.port)) = intlen(parsed.port) /\ intlen(parsed.port) \in 1 .. 9
    BY <1>1, DigitsAre, IntLen
  <2>2. <<COLON>> \in Texts /\ Length(<<COLON>>) = 1
    BY MarkTypes, LengthOne
  <2>3. port \in Texts /\ Length(port) = Length(<<COLON>>) + Length(Digits(parsed.port))
    BY <2>1, <2>2, LengthConcat
  <2> QED
    BY <2>1, <2>2, <2>3
<1>3. host = parsed.hostname \o (IF printed THEN port ELSE <<>>)
  BY DEF HostHeader
<1>4. HostRoom(parsed) = Length(parsed.hostname) + 1 + (IF parsed.port > 0 THEN intlen(parsed.port) ELSE 0)
  BY DEF HostRoom
<1>5. printed => parsed.port > 0
  BY <1>1
<1> HIDE DEF printed, port, host
<1>6. CASE printed
  <2>1. host = parsed.hostname \o port
    BY <1>3, <1>6
  <2>2. host \in Texts /\ Length(host) = Length(parsed.hostname) + Length(port)
    BY <1>1, <1>2, <2>1, LengthConcat
  <2>3. Length(host) > Length(parsed.hostname) /\ Length(host) + 1 > HostRoom(parsed)
    BY <1>1, <1>2, <1>4, <1>5, <1>6, <2>2
  <2>4. host # parsed.hostname /\ host # <<>>
    BY <1>1, <2>3, LengthNone
  <2> QED
    BY <2>2, <2>3, <2>4 DEF host
<1>7. CASE ~printed
  <2>1. host = parsed.hostname
    BY <1>1, <1>3, <1>7 DEF Texts
  <2>2. ~(Length(host) + 1 > HostRoom(parsed))
    BY <1>1, <1>2, <1>4, <2>1
  <2> QED
    BY <1>1, <2>1, <2>2 DEF host
<1> QED
  BY <1>6, <1>7

LEMMA ResourceType == \A parsed \in UriType : Resource(parsed) \in Texts
<1> TAKE parsed \in UriType
<1>1. parsed.path \in PartType /\ parsed.query \in PartType
  BY DEF UriType
<1>2. QUESTION_MARK \in Token /\ Size[QUESTION_MARK] = 1 /\ SLASH \in Token
  BY MarkTypes
<1>3. Text(parsed.path) \in Texts /\ Prefixed(QUESTION_MARK, parsed.query) \in Texts /\ <<SLASH>> \in Texts
  BY <1>1, <1>2, PartText, RoomIs, LengthOne
<1>4. \A s, t \in Texts : s \o t \in Texts
  BY LengthConcat
<1>5. <<SLASH>> \o Text(parsed.path) \in Texts
  BY <1>3, <1>4
<1> QED
  BY <1>3, <1>4, <1>5 DEF Resource

LEMMA MessageType == \A resource, host \in Texts : Message(resource, host) \in Texts
<1> TAKE resource, host \in Texts
<1>1. <<"GET", " ">> \in Texts /\ <<" ", "HTTP/1.0", "CRLF", "Host: ">> \in Texts /\ <<"CRLF", "CRLF">> \in Texts
  <2>1. "GET" \in Token /\ " " \in Token /\ "HTTP/1.0" \in Token /\ "CRLF" \in Token /\ "Host: " \in Token
    BY RoundAssumption
  <2>2. \A a, b, c, d \in Token : <<a, b>> \in Texts /\ <<a, b, c, d>> \in Texts
    BY DEF Texts
  <2> QED
    BY <2>1, <2>2, Zenon
<1>2. \A s, t \in Texts : s \o t \in Texts
  BY LengthConcat
<1>3. <<"GET", " ">> \o resource \in Texts
  BY <1>1, <1>2
<1>4. <<"GET", " ">> \o resource \o <<" ", "HTTP/1.0", "CRLF", "Host: ">> \in Texts
  BY <1>1, <1>2, <1>3
<1>5. <<"GET", " ">> \o resource \o <<" ", "HTTP/1.0", "CRLF", "Host: ">> \o host \in Texts
  BY <1>2, <1>4
<1> QED
  BY <1>1, <1>2, <1>5 DEF Message

-------------------------------------------------------------------------------
(* The number of a text of digits *)

LEMMA NumberStep ==
    ASSUME NEW n \in Nat, NEW w \in DOMAIN Value
    PROVE  /\ n * 10^Size[w] + Value[w] \in Nat /\ n * 10^Size[w] + Value[w] >= n
           /\ (n * 10^Size[w] + Value[w]) % IntSpan \in Nat
           /\ n * 10^Size[w] + Value[w] < IntSpan =>
                (n * 10^Size[w] + Value[w]) % IntSpan = n * 10^Size[w] + Value[w]
<1> DEFINE p == 10^Size[w]
<1>1. p \in Nat \ {0} /\ Value[w] \in Nat
  BY UriAssumption
<1>2. IntSpan \in Nat \ {0}
  BY UriAssumption
<1> HIDE DEF p
<1>3. \A m \in Nat : \A v \in Nat : \A q \in Nat \ {0} : m * q + v \in Nat /\ m * q + v >= m
  <2> TAKE m \in Nat
  <2> TAKE v \in Nat
  <2> TAKE q \in Nat \ {0}
  <2>1. q - 1 \in Nat /\ m * q = m * (q - 1) + m /\ m * (q - 1) \in Nat /\ m * q \in Nat
    OBVIOUS
  <2> QED
    BY <2>1
<1>4. \A m \in Nat : \A s \in Nat \ {0} : m % s \in Nat /\ (m < s => m % s = m)
  OBVIOUS
<1> QED
  BY <1>1, <1>2, <1>3, <1>4 DEF p

(* What atoi has of the bits of a number before the sign *)
LowBits(digits) ==
    FoldLeft(LAMBDA n, w : (n * 10^Size[w] + Value[w]) % IntSpan, 0, digits)

LEMMA NumberFold ==
    ASSUME NEW digits \in Seq(DOMAIN Value)
    PROVE  \E part \in [0 .. Len(digits) -> Nat] :
             /\ part[0] = 0 /\ part[Len(digits)] = Number(digits)
             /\ \A k \in 1 .. Len(digits) : part[k] = part[k - 1] * 10^Size[digits[k]] + Value[digits[k]]
<1> DEFINE n == Len(digits)
           F == [x \in Nat \X (1 .. n) |-> x[1] * 10^Size[digits[x[2]]] + Value[digits[x[2]]]]
           Step(it) == [s \in SUBSET DOMAIN digits |->
                          IF s = {} THEN 0 ELSE it[s \ {Max(s)}] * 10^Size[digits[Max(s)]] + Value[digits[Max(s)]]]
           it == CHOOSE f : f = Step(f)
<1>0. 0 \in Nat
  OBVIOUS
<1>1. Number(digits) = it[DOMAIN digits]
  BY Zenon DEF Number, FoldLeft, MapThenFoldSet
<1>2. n \in Nat /\ DOMAIN digits = 1 .. n /\ \A k \in 1 .. n : digits[k] \in DOMAIN Value
  OBVIOUS
<1>3. \A x \in Nat : \A k \in 1 .. n : x * 10^Size[digits[k]] + Value[digits[k]] \in Nat
  BY <1>2, NumberStep
<1>4. /\ F \in [Nat \X (1 .. n) -> Nat]
      /\ \A x \in Nat : \A k \in 1 .. n : F[<<x, k>>] = x * 10^Size[digits[k]] + Value[digits[k]]
  BY <1>3
<1>5. \A s : Max(s) = Largest(s)
  BY DEF Max, Largest
<1>6. it = Step(it)
  <2> HIDE DEF F, n
  <2>1. PICK f : Recursion(f, Nat, n, F, 0)
    BY <1>0, <1>2, <1>4, FoldRecursion
  <2>2. \A s \in SUBSET (1 .. n) : f[s] = IF s = {} THEN 0 ELSE f[s \ {Max(s)}] * 10^Size[digits[Max(s)]] + Value[digits[Max(s)]]
    <3> TAKE s \in SUBSET (1 .. n)
    <3>1. s # {} => /\ Largest(s) \in 1 .. n /\ f[s \ {Largest(s)}] \in Nat
                    /\ f[s] = F[<<f[s \ {Largest(s)}], Largest(s)>>]
      BY <2>1 DEF Recursion
    <3>2. f[{}] = 0
      BY <2>1 DEF Recursion
    <3> QED
      BY <1>4, <1>5, <3>1, <3>2, Zenon
  <2>3. f = Step(f)
    <3>1. f \in [SUBSET (1 .. n) -> Nat] /\ SUBSET DOMAIN digits = SUBSET (1 .. n)
      BY <1>2, <2>1 DEF Recursion
    <3> QED
      BY <2>2, <3>1
  <2> HIDE DEF Step
  <2> QED
    BY <2>3, Zenon
<1> HIDE DEF it
<1>7. it[{}] = 0
  BY <1>2, <1>6
<1>8. \A s \in SUBSET (1 .. n) : s # {} /\ it[s \ {Largest(s)}] \in Nat =>
              it[s] = F[<<it[s \ {Largest(s)}], Largest(s)>>]
  <2> TAKE s \in SUBSET (1 .. n)
  <2> SUFFICES ASSUME s # {}, it[s \ {Largest(s)}] \in Nat
               PROVE  it[s] = F[<<it[s \ {Largest(s)}], Largest(s)>>]
    OBVIOUS
  <2>1. Largest(s) \in 1 .. n
    BY <1>2, LargestOf
  <2>2. it[s] = it[s \ {Max(s)}] * 10^Size[digits[Max(s)]] + Value[digits[Max(s)]]
    BY <1>2, <1>6
  <2> HIDE DEF F, n
  <2> QED
    BY <1>4, <1>5, <2>1, <2>2, Zenon
<1> HIDE DEF F, n
<1>9. PICK part : Partials(part, it, Nat, n, F, 0)
  BY <1>2, <1>4, <1>7, <1>8, <1>0, FoldPartials
<1>10. \A k \in 1 .. n : part[k] = part[k - 1] * 10^Size[digits[k]] + Value[digits[k]]
  <2> TAKE k \in 1 .. n
  <2>1. part[k - 1] \in Nat /\ part[k] = F[<<part[k - 1], k>>]
    <3>1. k - 1 \in 0 .. n
      BY <1>2
    <3>2. part \in [0 .. n -> Nat] /\ \A m \in 1 .. n : part[m] = F[<<part[m - 1], m>>]
      BY <1>9 DEF Partials
    <3> QED
      BY <3>1, <3>2
  <2> QED
    BY <1>4, <2>1, Zenon
<1>11. /\ part \in [0 .. n -> Nat]
       /\ part[0] = 0 /\ part[n] = Number(digits)
  BY <1>1, <1>2, <1>9 DEF Partials
<1> QED
  BY <1>10, <1>11 DEF n

LEMMA LowBitsFold ==
    ASSUME NEW digits \in Seq(DOMAIN Value)
    PROVE  \E part \in [0 .. Len(digits) -> Nat] :
             /\ part[0] = 0 /\ part[Len(digits)] = LowBits(digits)
             /\ \A k \in 1 .. Len(digits) : part[k] = (part[k - 1] * 10^Size[digits[k]] + Value[digits[k]]) % IntSpan
<1> DEFINE n == Len(digits)
           F == [x \in Nat \X (1 .. n) |-> (x[1] * 10^Size[digits[x[2]]] + Value[digits[x[2]]]) % IntSpan]
           Step(it) == [s \in SUBSET DOMAIN digits |->
                          IF s = {} THEN 0 ELSE (it[s \ {Max(s)}] * 10^Size[digits[Max(s)]] + Value[digits[Max(s)]]) % IntSpan]
           it == CHOOSE f : f = Step(f)
<1>0. 0 \in Nat
  OBVIOUS
<1>1. LowBits(digits) = it[DOMAIN digits]
  BY Zenon DEF LowBits, FoldLeft, MapThenFoldSet
<1>2. n \in Nat /\ DOMAIN digits = 1 .. n /\ \A k \in 1 .. n : digits[k] \in DOMAIN Value
  OBVIOUS
<1>3. \A x \in Nat : \A k \in 1 .. n : (x * 10^Size[digits[k]] + Value[digits[k]]) % IntSpan \in Nat
  BY <1>2, NumberStep
<1>4. /\ F \in [Nat \X (1 .. n) -> Nat]
      /\ \A x \in Nat : \A k \in 1 .. n : F[<<x, k>>] = (x * 10^Size[digits[k]] + Value[digits[k]]) % IntSpan
  BY <1>3
<1>5. \A s : Max(s) = Largest(s)
  BY DEF Max, Largest
<1>6. it = Step(it)
  <2> HIDE DEF F, n
  <2>1. PICK f : Recursion(f, Nat, n, F, 0)
    BY <1>0, <1>2, <1>4, FoldRecursion
  <2>2. \A s \in SUBSET (1 .. n) : f[s] = IF s = {} THEN 0 ELSE (f[s \ {Max(s)}] * 10^Size[digits[Max(s)]] + Value[digits[Max(s)]]) % IntSpan
    <3> TAKE s \in SUBSET (1 .. n)
    <3>1. s # {} => /\ Largest(s) \in 1 .. n /\ f[s \ {Largest(s)}] \in Nat
                    /\ f[s] = F[<<f[s \ {Largest(s)}], Largest(s)>>]
      BY <2>1 DEF Recursion
    <3>2. f[{}] = 0
      BY <2>1 DEF Recursion
    <3> QED
      BY <1>4, <1>5, <3>1, <3>2, Zenon
  <2>3. f = Step(f)
    <3>1. f \in [SUBSET (1 .. n) -> Nat] /\ SUBSET DOMAIN digits = SUBSET (1 .. n)
      BY <1>2, <2>1 DEF Recursion
    <3> QED
      BY <2>2, <3>1
  <2> HIDE DEF Step
  <2> QED
    BY <2>3, Zenon
<1> HIDE DEF it
<1>7. it[{}] = 0
  BY <1>2, <1>6
<1>8. \A s \in SUBSET (1 .. n) : s # {} /\ it[s \ {Largest(s)}] \in Nat =>
              it[s] = F[<<it[s \ {Largest(s)}], Largest(s)>>]
  <2> TAKE s \in SUBSET (1 .. n)
  <2> SUFFICES ASSUME s # {}, it[s \ {Largest(s)}] \in Nat
               PROVE  it[s] = F[<<it[s \ {Largest(s)}], Largest(s)>>]
    OBVIOUS
  <2>1. Largest(s) \in 1 .. n
    BY <1>2, LargestOf
  <2>2. it[s] = (it[s \ {Max(s)}] * 10^Size[digits[Max(s)]] + Value[digits[Max(s)]]) % IntSpan
    BY <1>2, <1>6
  <2> HIDE DEF F, n
  <2> QED
    BY <1>4, <1>5, <2>1, <2>2, Zenon
<1> HIDE DEF F, n
<1>9. PICK part : Partials(part, it, Nat, n, F, 0)
  BY <1>2, <1>4, <1>7, <1>8, <1>0, FoldPartials
<1>10. \A k \in 1 .. n : part[k] = (part[k - 1] * 10^Size[digits[k]] + Value[digits[k]]) % IntSpan
  <2> TAKE k \in 1 .. n
  <2>1. part[k - 1] \in Nat /\ part[k] = F[<<part[k - 1], k>>]
    <3>1. k - 1 \in 0 .. n
      BY <1>2
    <3>2. part \in [0 .. n -> Nat] /\ \A m \in 1 .. n : part[m] = F[<<part[m - 1], m>>]
      BY <1>9 DEF Partials
    <3> QED
      BY <3>1, <3>2
  <2> QED
    BY <1>4, <2>1, Zenon
<1>11. /\ part \in [0 .. n -> Nat]
       /\ part[0] = 0 /\ part[n] = LowBits(digits)
  BY <1>1, <1>2, <1>9 DEF Partials
<1> QED
  BY <1>10, <1>11 DEF n

LEMMA NumericSeq ==
    \A text \in Texts : IsNumeric(text) => text \in Seq(DOMAIN Value)
<1> TAKE text \in Texts
<1> SUFFICES ASSUME IsNumeric(text) PROVE text \in Seq(DOMAIN Value)
  OBVIOUS
<1>1. Len(text) \in Nat /\ DOMAIN text = 1 .. Len(text) /\ \A k \in 1 .. Len(text) : text[k] \in DOMAIN Value
  BY TextFacts DEF IsNumeric, ToSet
<1>2. text \in [1 .. Len(text) -> DOMAIN Value]
  BY <1>1 DEF Texts
<1> QED
  BY <1>1, <1>2

(* atoi finds the number of the digits when it is one an int can have *)
LEMMA AtoIIs ==
    ASSUME NEW digits \in Seq(DOMAIN Value)
    PROVE  /\ Number(digits) \in Nat /\ AtoI(digits) \in Int
           /\ Number(digits) < IntSpan =>
                AtoI(digits) = IF 2 * Number(digits) >= IntSpan THEN Number(digits) - IntSpan ELSE Number(digits)
<1>1. PICK num \in [0 .. Len(digits) -> Nat] :
             /\ num[0] = 0 /\ num[Len(digits)] = Number(digits)
             /\ \A k \in 1 .. Len(digits) :
                  num[k] = num[k - 1] * 10^Size[digits[k]] + Value[digits[k]]
  BY NumberFold
<1>2. PICK low \in [0 .. Len(digits) -> Nat] :
             /\ low[0] = 0 /\ low[Len(digits)] = LowBits(digits)
             /\ \A k \in 1 .. Len(digits) :
                  low[k] = (low[k - 1] * 10^Size[digits[k]] + Value[digits[k]]) % IntSpan
  BY LowBitsFold
<1>3. AtoI(digits) = IF 2 * LowBits(digits) >= IntSpan THEN LowBits(digits) - IntSpan ELSE LowBits(digits)
  BY DEF AtoI, LowBits
<1>4. Len(digits) \in Nat /\ IntSpan \in Nat /\ \A k \in 1 .. Len(digits) : digits[k] \in DOMAIN Value
  BY UriAssumption
<1>5. Number(digits) \in Nat /\ LowBits(digits) \in Nat
  BY <1>1, <1>2, <1>4
<1>6. ASSUME Number(digits) < IntSpan PROVE LowBits(digits) = Number(digits)
  <2> DEFINE n == Len(digits)
             Q == {j \in 0 .. n : num[n - j] < IntSpan}
             R == {k \in 0 .. n : low[k] = num[k]}
  <2>1. \A k \in 1 .. n : num[k - 1] \in Nat /\ num[k] \in Nat /\ num[k - 1] <= num[k]
    <3> TAKE k \in 1 .. n
    <3>1. k - 1 \in 0 .. n /\ k \in 0 .. n /\ digits[k] \in DOMAIN Value
      BY <1>4
    <3>2. num[k - 1] \in Nat /\ num[k] \in Nat
      BY <3>1
    <3> DEFINE m == num[k - 1]
               w == digits[k]
    <3>3. num[k] = m * 10^Size[w] + Value[w]
      BY <1>1
    <3>4. m \in Nat /\ w \in DOMAIN Value
      BY <3>1, <3>2
    <3> HIDE DEF m, w
    <3>5. m * 10^Size[w] + Value[w] >= m
      BY <3>4, NumberStep
    <3>6. num[k] >= m
      BY <3>3, <3>5
    <3> QED
      BY <3>2, <3>6 DEF m
  <2>2. \A k \in 0 .. n : num[k] < IntSpan
    <3>1. 0 \in Q
      BY <1>1, <1>4, <1>6
    <3>2. ASSUME NEW j \in 1 .. n, j - 1 \in Q PROVE j \in Q
      <4>1. n - j + 1 \in 1 .. n /\ (n - j + 1) - 1 = n - j /\ n - (j - 1) = n - j + 1
        BY <1>4
      <4>2. num[n - (j - 1)] < IntSpan
        BY <3>2
      <4>3. num[n - j] \in Nat /\ num[n - j + 1] \in Nat /\ num[n - j] <= num[n - j + 1]
        BY <2>1, <4>1
      <4>4. num[n - j] < IntSpan
        BY <1>4, <4>1, <4>2, <4>3
      <4> QED
        BY <1>4, <4>4
    <3>3. \A j \in 0 .. n : j \in Q
      <4> HIDE DEF Q
      <4> QED
        BY <1>4, <3>1, <3>2, UpToInduction
    <3> TAKE k \in 0 .. n
    <3>4. n - k \in 0 .. n /\ n - (n - k) = k
      BY <1>4
    <3>5. n - k \in Q
      <4> HIDE DEF Q
      <4> QED
        BY <3>3, <3>4
    <3> QED
      BY <3>4, <3>5
  <2>3. 0 \in R
    BY <1>1, <1>2, <1>4
  <2>4. ASSUME NEW k \in 1 .. n, k - 1 \in R PROVE k \in R
    <3> DEFINE m == num[k - 1]
               w == digits[k]
    <3>1. k - 1 \in 0 .. n /\ k \in 0 .. n /\ w \in DOMAIN Value /\ m \in Nat /\ low[k - 1] = m
      BY <1>4, <2>1, <2>4
    <3>2. low[k] = (m * 10^Size[w] + Value[w]) % IntSpan
      <4>1. low[k] = (low[k - 1] * 10^Size[digits[k]] + Value[digits[k]]) % IntSpan
        BY <1>2
      <4> QED
        BY <3>1, <4>1, Zenon
    <3>3. num[k] = m * 10^Size[w] + Value[w] /\ num[k] < IntSpan
      BY <1>1, <2>2, <3>1
    <3> HIDE DEF m, w
    <3>4. low[k] = num[k]
      <4>1. m * 10^Size[w] + Value[w] < IntSpan
        BY <3>3, Zenon
      <4>2. (m * 10^Size[w] + Value[w]) % IntSpan = m * 10^Size[w] + Value[w]
        BY <3>1, <4>1, NumberStep, Zenon
      <4> QED
        BY <3>2, <3>3, <4>2, Zenon
    <3> QED
      BY <3>1, <3>4
  <2>5. n \in R
    <3>1. n \in 0 .. n
      BY <1>4
    <3> HIDE DEF R
    <3> QED
      BY <1>4, <2>3, <2>4, <3>1, UpToInduction
  <2> QED
    BY <1>1, <1>2, <2>5
<1>7. AtoI(digits) \in Int
  BY <1>3, <1>4, <1>5
<1> QED
  BY <1>3, <1>5, <1>6, <1>7

-------------------------------------------------------------------------------
(* Quoting and unquoting make texts of texts *)

LEMMA HexTypes ==
    /\ \A c \in DOMAIN Hex : c \in Token /\ <<"%">> \o Hex[c] \in Texts
    /\ \A one, two : Unhex(one, two) \in Token
    /\ "%" \in Token
<1>1. "%" \in Token
  BY MarkTypes
<1>2. ASSUME NEW c \in DOMAIN Hex PROVE c \in Token /\ <<"%">> \o Hex[c] \in Texts
  <2>1. c \in Token /\ Hex[c] \in Token \X Token
    BY UriAssumption
  <2>2. Hex[c] \in Texts
    <3>1. PICK a \in Token, b \in Token : Hex[c] = <<a, b>>
      BY <2>1
    <3>2. <<a, b>> \in Texts
      BY DEF Texts
    <3> QED
      BY <3>1, <3>2
  <2>3. <<"%">> \in Texts
    BY <1>1 DEF Texts
  <2> QED
    BY <2>1, <2>2, <2>3, LengthConcat
<1>3. ASSUME NEW one, NEW two PROVE Unhex(one, two) \in Token
  <2>1. "NUL" \in Token /\ DOMAIN Hex \subseteq Token
    BY UriAssumption
  <2>2. CASE \E c \in DOMAIN Hex : Hex[c] = <<one, two>>
    <3>1. (CHOOSE c \in DOMAIN Hex : Hex[c] = <<one, two>>) \in DOMAIN Hex
      BY <2>2, Zenon
    <3>2. Unhex(one, two) = CHOOSE c \in DOMAIN Hex : Hex[c] = <<one, two>>
      BY <2>2, Zenon DEF Unhex
    <3> QED
      BY <2>1, <3>1, <3>2, Zenon
  <2>3. CASE ~\E c \in DOMAIN Hex : Hex[c] = <<one, two>>
    <3>1. Unhex(one, two) = "NUL"
      BY <2>3, Zenon DEF Unhex
    <3> QED
      BY <2>1, <3>1
  <2> QED
    BY <2>2, <2>3
<1> QED
  BY <1>1, <1>2, <1>3, Zenon

LEMMA QuotedFold ==
    ASSUME NEW text \in Texts, NEW places \in SUBSET Quotable(text)
    PROVE  \E part \in [0 .. Len(text) -> Texts] :
             /\ part[0] = <<>> /\ part[Len(text)] = QuotedAt(text, places)
             /\ \A k \in 1 .. Len(text) : part[k] = part[k - 1] \o (IF k \in places THEN <<"%">> \o Hex[text[k]] ELSE <<text[k]>>)
<1> DEFINE n == Len(text)
           F == [x \in Texts \X (1 .. n) |-> x[1] \o (IF x[2] \in places THEN <<"%">> \o Hex[text[x[2]]] ELSE <<text[x[2]]>>)]
           at == [i \in DOMAIN text |-> i]
           Step(it) == [s \in SUBSET DOMAIN at |->
                          IF s = {} THEN <<>> ELSE it[s \ {Max(s)}] \o (IF at[Max(s)] \in places THEN <<"%">> \o Hex[text[at[Max(s)]]] ELSE <<text[at[Max(s)]]>>)]
           it == CHOOSE f : f = Step(f)
<1>0. <<>> \in Texts
  BY DEF Texts
<1>1. QuotedAt(text, places) = it[DOMAIN at]
  BY Zenon DEF QuotedAt, FoldLeftDomain, FoldLeft, MapThenFoldSet
<1>2. n \in Nat /\ DOMAIN at = 1 .. n /\ DOMAIN text = 1 .. n /\ \A k \in 1 .. n : at[k] = k
  BY DEF Texts
<1>3. \A x \in Texts : \A k \in 1 .. n : x \o (IF k \in places THEN <<"%">> \o Hex[text[k]] ELSE <<text[k]>>) \in Texts
  <2> TAKE x \in Texts
  <2> TAKE k \in 1 .. n
  <2>1. text[k] \in Token
    BY <1>2, TextFacts
  <2>2. <<text[k]>> \in Texts
    BY <2>1, LengthOne
  <2>3. k \in places => text[k] \in DOMAIN Hex
    BY DEF Quotable
  <2>4. k \in places => <<"%">> \o Hex[text[k]] \in Texts
    BY <2>3, HexTypes
  <2>5. (IF k \in places THEN <<"%">> \o Hex[text[k]] ELSE <<text[k]>>) \in Texts
    BY <2>2, <2>4
  <2> QED
    BY <2>5, LengthConcat
<1>4. /\ F \in [Texts \X (1 .. n) -> Texts]
      /\ \A x \in Texts : \A k \in 1 .. n : F[<<x, k>>] = x \o (IF k \in places THEN <<"%">> \o Hex[text[k]] ELSE <<text[k]>>)
  BY <1>3
<1>5. \A s : Max(s) = Largest(s)
  BY DEF Max, Largest
<1>6. it = Step(it)
  <2> HIDE DEF F, n
  <2>1. PICK f : Recursion(f, Texts, n, F, <<>>)
    BY <1>0, <1>2, <1>4, FoldRecursion
  <2>2. \A s \in SUBSET (1 .. n) : f[s] = IF s = {} THEN <<>> ELSE f[s \ {Max(s)}] \o (IF at[Max(s)] \in places THEN <<"%">> \o Hex[text[at[Max(s)]]] ELSE <<text[at[Max(s)]]>>)
    <3> TAKE s \in SUBSET (1 .. n)
    <3> HIDE DEF at
    <3>1. s # {} => /\ Largest(s) \in 1 .. n /\ f[s \ {Largest(s)}] \in Texts
                    /\ f[s] = F[<<f[s \ {Largest(s)}], Largest(s)>>]
      BY <2>1 DEF Recursion
    <3>2. f[{}] = <<>>
      BY <2>1 DEF Recursion
    <3>3. CASE s = {}
      BY <3>2, <3>3
    <3>4. CASE s # {}
      <4>1. F[<<f[s \ {Largest(s)}], Largest(s)>>] = f[s \ {Largest(s)}] \o (IF Largest(s) \in places THEN <<"%">> \o Hex[text[Largest(s)]] ELSE <<text[Largest(s)]>>)
        BY <1>4, <3>1, <3>4, Zenon
      <4>2. at[Max(s)] = Largest(s) /\ Max(s) = Largest(s)
        BY <1>2, <1>5, <3>1, <3>4
      <4> QED
        BY <3>1, <3>4, <4>1, <4>2, Zenon
    <3> QED
      BY <3>3, <3>4
  <2>3. f = Step(f)
    <3>1. f \in [SUBSET (1 .. n) -> Texts] /\ SUBSET DOMAIN at = SUBSET (1 .. n)
      BY <1>2, <2>1 DEF Recursion
    <3> HIDE DEF at
    <3> QED
      BY <2>2, <3>1
  <2> HIDE DEF Step
  <2> QED
    BY <2>3, Zenon
<1> HIDE DEF it
<1>7. it[{}] = <<>>
  BY <1>2, <1>6
<1>8. \A s \in SUBSET (1 .. n) : s # {} /\ it[s \ {Largest(s)}] \in Texts =>
              it[s] = F[<<it[s \ {Largest(s)}], Largest(s)>>]
  <2> TAKE s \in SUBSET (1 .. n)
  <2> SUFFICES ASSUME s # {}, it[s \ {Largest(s)}] \in Texts
               PROVE  it[s] = F[<<it[s \ {Largest(s)}], Largest(s)>>]
    OBVIOUS
  <2>1. Largest(s) \in 1 .. n
    BY <1>2, LargestOf
  <2>2. it[s] = it[s \ {Max(s)}] \o (IF at[Max(s)] \in places THEN <<"%">> \o Hex[text[at[Max(s)]]] ELSE <<text[at[Max(s)]]>>)
    BY <1>2, <1>6
  <2> HIDE DEF F, at, n
  <2>3. F[<<it[s \ {Largest(s)}], Largest(s)>>] = it[s \ {Largest(s)}] \o (IF Largest(s) \in places THEN <<"%">> \o Hex[text[Largest(s)]] ELSE <<text[Largest(s)]>>)
    BY <1>4, <2>1, Zenon
  <2>4. at[Max(s)] = Largest(s) /\ Max(s) = Largest(s)
    BY <1>2, <1>5, <2>1
  <2> QED
    BY <2>2, <2>3, <2>4, Zenon
<1> HIDE DEF F, at, n
<1>9. PICK part : Partials(part, it, Texts, n, F, <<>>)
  BY <1>0, <1>2, <1>4, <1>7, <1>8, FoldPartials
<1>10. \A k \in 1 .. n : part[k] = part[k - 1] \o (IF k \in places THEN <<"%">> \o Hex[text[k]] ELSE <<text[k]>>)
  <2> TAKE k \in 1 .. n
  <2>1. part[k - 1] \in Texts /\ part[k] = F[<<part[k - 1], k>>]
    <3>1. k - 1 \in 0 .. n
      BY <1>2
    <3>2. part \in [0 .. n -> Texts] /\ \A m \in 1 .. n : part[m] = F[<<part[m - 1], m>>]
      BY <1>9 DEF Partials
    <3> QED
      BY <3>1, <3>2
  <2> QED
    BY <1>4, <2>1, Zenon
<1>11. /\ part \in [0 .. n -> Texts]
       /\ part[0] = <<>> /\ part[n] = QuotedAt(text, places)
  BY <1>1, <1>2, <1>9 DEF Partials
<1> QED
  BY <1>10, <1>11 DEF n

LEMMA QuotedType ==
    ASSUME NEW text \in Texts, NEW places \in SUBSET Quotable(text)
    PROVE  QuotedAt(text, places) \in Texts
<1>1. PICK part \in [0 .. Len(text) -> Texts] : part[Len(text)] = QuotedAt(text, places)
  BY QuotedFold
<1> QED
  BY <1>1, TextFacts

Unquoting == [out : Texts, skip : Int]

UnquoteStep(text, digits, acc, k) ==
    IF acc.skip > 0 THEN [acc EXCEPT !.skip = acc.skip - 1]
    ELSE IF text[k] = "%" /\ Len(text) > k + 1
    THEN [out |-> Append(acc.out, Unhex(text[k + 1], text[k + 2])), skip |-> digits]
    ELSE [acc EXCEPT !.out = Append(acc.out, text[k])]

UnquotedAll(text, digits) ==
    FoldLeftDomain(LAMBDA acc, k : UnquoteStep(text, digits, acc, k), [out |-> <<>>, skip |-> 0], text)

LEMMA UnquotedFold ==
    ASSUME NEW text \in Texts, NEW digits \in Int
    PROVE  \E part \in [0 .. Len(text) -> Unquoting] :
             /\ part[0] = [out |-> <<>>, skip |-> 0] /\ part[Len(text)] = UnquotedAll(text, digits)
             /\ \A k \in 1 .. Len(text) : part[k] = UnquoteStep(text, digits, part[k - 1], k)
<1> DEFINE n == Len(text)
           F == [x \in Unquoting \X (1 .. n) |-> UnquoteStep(text, digits, x[1], x[2])]
           at == [i \in DOMAIN text |-> i]
           Step(it) == [s \in SUBSET DOMAIN at |->
                          IF s = {} THEN [out |-> <<>>, skip |-> 0] ELSE UnquoteStep(text, digits, it[s \ {Max(s)}], at[Max(s)])]
           it == CHOOSE f : f = Step(f)
<1>0. [out |-> <<>>, skip |-> 0] \in Unquoting
  BY DEF Unquoting, Texts
<1>1. UnquotedAll(text, digits) = it[DOMAIN at]
  BY Zenon DEF UnquotedAll, FoldLeftDomain, FoldLeft, MapThenFoldSet
<1>2. n \in Nat /\ DOMAIN at = 1 .. n /\ DOMAIN text = 1 .. n /\ \A k \in 1 .. n : at[k] = k
  BY DEF Texts
<1>3. \A x \in Unquoting : \A k \in 1 .. n : UnquoteStep(text, digits, x, k) \in Unquoting
  <2> TAKE x \in Unquoting
  <2> TAKE k \in 1 .. n
  <2>1. text[k] \in Token /\ Unhex(text[k + 1], text[k + 2]) \in Token
    BY <1>2, TextFacts, HexTypes
  <2>2. /\ x.out \in Texts /\ x.skip \in Int
        /\ x = [out |-> x.out, skip |-> x.skip]
    BY DEF Unquoting
  <2>3. \A c \in Token : Append(x.out, c) \in Texts
    BY <2>2, LengthAppend
  <2>4. \A t \in Texts : \A m \in Int : [out |-> t, skip |-> m] \in Unquoting
    BY DEF Unquoting
  <2>5. /\ [x EXCEPT !.skip = x.skip - 1] = [out |-> x.out, skip |-> x.skip - 1]
        /\ [x EXCEPT !.out = Append(x.out, text[k])] = [out |-> Append(x.out, text[k]), skip |-> x.skip]
    BY <2>2
  <2>6. x.skip - 1 \in Int
    BY <2>2
  <2>7. /\ [x EXCEPT !.skip = x.skip - 1] \in Unquoting
        /\ [x EXCEPT !.out = Append(x.out, text[k])] \in Unquoting
    <3>1. [out |-> x.out, skip |-> x.skip - 1] \in Unquoting
      BY <2>2, <2>4, <2>6
    <3>2. [out |-> Append(x.out, text[k]), skip |-> x.skip] \in Unquoting
      BY <2>1, <2>2, <2>3, <2>4
    <3> QED
      BY <2>5, <3>1, <3>2, Zenon
  <2>8. [out |-> Append(x.out, Unhex(text[k + 1], text[k + 2])), skip |-> digits] \in Unquoting
    BY <2>1, <2>3, <2>4, Zenon
  <2> QED
    BY <2>7, <2>8, Zenon DEF UnquoteStep
<1>4. /\ F \in [Unquoting \X (1 .. n) -> Unquoting]
      /\ \A x \in Unquoting : \A k \in 1 .. n : F[<<x, k>>] = UnquoteStep(text, digits, x, k)
  BY <1>3
<1>5. \A s : Max(s) = Largest(s)
  BY DEF Max, Largest
<1>6. it = Step(it)
  <2> HIDE DEF F, n
  <2>1. PICK f : Recursion(f, Unquoting, n, F, [out |-> <<>>, skip |-> 0])
    BY <1>0, <1>2, <1>4, FoldRecursion
  <2>2. \A s \in SUBSET (1 .. n) : f[s] = IF s = {} THEN [out |-> <<>>, skip |-> 0] ELSE UnquoteStep(text, digits, f[s \ {Max(s)}], at[Max(s)])
    <3> TAKE s \in SUBSET (1 .. n)
    <3> HIDE DEF at
    <3>1. s # {} => /\ Largest(s) \in 1 .. n /\ f[s \ {Largest(s)}] \in Unquoting
                    /\ f[s] = F[<<f[s \ {Largest(s)}], Largest(s)>>]
      BY <2>1 DEF Recursion
    <3>2. f[{}] = [out |-> <<>>, skip |-> 0]
      BY <2>1 DEF Recursion
    <3>3. CASE s = {}
      BY <3>2, <3>3
    <3>4. CASE s # {}
      <4>1. F[<<f[s \ {Largest(s)}], Largest(s)>>] = UnquoteStep(text, digits, f[s \ {Largest(s)}], Largest(s))
        BY <1>4, <3>1, <3>4, Zenon
      <4>2. at[Max(s)] = Largest(s) /\ Max(s) = Largest(s)
        BY <1>2, <1>5, <3>1, <3>4
      <4> QED
        BY <3>1, <3>4, <4>1, <4>2, Zenon
    <3> QED
      BY <3>3, <3>4
  <2>3. f = Step(f)
    <3>1. f \in [SUBSET (1 .. n) -> Unquoting] /\ SUBSET DOMAIN at = SUBSET (1 .. n)
      BY <1>2, <2>1 DEF Recursion
    <3> HIDE DEF at
    <3> QED
      BY <2>2, <3>1
  <2> HIDE DEF Step
  <2> QED
    BY <2>3, Zenon
<1> HIDE DEF it
<1>7. it[{}] = [out |-> <<>>, skip |-> 0]
  BY <1>2, <1>6
<1>8. \A s \in SUBSET (1 .. n) : s # {} /\ it[s \ {Largest(s)}] \in Unquoting =>
              it[s] = F[<<it[s \ {Largest(s)}], Largest(s)>>]
  <2> TAKE s \in SUBSET (1 .. n)
  <2> SUFFICES ASSUME s # {}, it[s \ {Largest(s)}] \in Unquoting
               PROVE  it[s] = F[<<it[s \ {Largest(s)}], Largest(s)>>]
    OBVIOUS
  <2>1. Largest(s) \in 1 .. n
    BY <1>2, LargestOf
  <2>2. it[s] = UnquoteStep(text, digits, it[s \ {Max(s)}], at[Max(s)])
    BY <1>2, <1>6
  <2> HIDE DEF F, at, n
  <2>3. F[<<it[s \ {Largest(s)}], Largest(s)>>] = UnquoteStep(text, digits, it[s \ {Largest(s)}], Largest(s))
    BY <1>4, <2>1, Zenon
  <2>4. at[Max(s)] = Largest(s) /\ Max(s) = Largest(s)
    BY <1>2, <1>5, <2>1
  <2> QED
    BY <2>2, <2>3, <2>4, Zenon
<1> HIDE DEF F, at, n
<1>9. PICK part : Partials(part, it, Unquoting, n, F, [out |-> <<>>, skip |-> 0])
  BY <1>0, <1>2, <1>4, <1>7, <1>8, FoldPartials
<1>10. \A k \in 1 .. n : part[k] = UnquoteStep(text, digits, part[k - 1], k)
  <2> TAKE k \in 1 .. n
  <2>1. part[k - 1] \in Unquoting /\ part[k] = F[<<part[k - 1], k>>]
    <3>1. k - 1 \in 0 .. n
      BY <1>2
    <3>2. part \in [0 .. n -> Unquoting] /\ \A m \in 1 .. n : part[m] = F[<<part[m - 1], m>>]
      BY <1>9 DEF Partials
    <3> QED
      BY <3>1, <3>2
  <2> QED
    BY <1>4, <2>1, Zenon
<1>11. /\ part \in [0 .. n -> Unquoting]
       /\ part[0] = [out |-> <<>>, skip |-> 0] /\ part[n] = UnquotedAll(text, digits)
  BY <1>1, <1>2, <1>9 DEF Partials
<1> QED
  BY <1>10, <1>11 DEF n

LEMMA UnquotedType == \A text \in Texts : rfc3986_unquote_safe(text) \in Texts
<1> TAKE text \in Texts
<1> DEFINE out == UnquotedAll(text, 2).out
<1>1. out \in Texts
  <2>1. PICK part \in [0 .. Len(text) -> Unquoting] : part[Len(text)] = UnquotedAll(text, 2)
    <3>1. 2 \in Int
      OBVIOUS
    <3> QED
      BY <3>1, UnquotedFold
  <2>2. UnquotedAll(text, 2) \in Unquoting
    BY <2>1, TextFacts
  <2> QED
    BY <2>2 DEF Unquoting
<1>2. rfc3986_unquote_safe(text) = SubSeq(out, 1, Or(Find("NUL", out, 1), Len(out) + 1) - 1)
  BY Zenon DEF rfc3986_unquote_safe, Unquoted, UnquotedAll, UnquoteStep
<1> HIDE DEF out
<1>3. Len(out) \in Nat /\ Find("NUL", out, 1) \in 0 .. Len(out)
  BY <1>1, Found, TextFacts
<1>4. /\ Or(Find("NUL", out, 1), Len(out) + 1) - 1 \in Int
      /\ Or(Find("NUL", out, 1), Len(out) + 1) - 1 <= Len(out)
  BY <1>3 DEF Or
<1> DEFINE last == Or(Find("NUL", out, 1), Len(out) + 1) - 1
<1>5. 1 \in Nat \ {0} /\ last \in Int /\ last <= Len(out)
  BY <1>4
<1> HIDE DEF last
<1>6. SubSeq(out, 1, last) \in Texts
  BY <1>1, <1>5, Sub
<1> QED
  BY <1>2, <1>6 DEF last

LEMMA WithSchemeType == \A text \in Texts : WithScheme(text) \in Texts
<1> TAKE text \in Texts
<1>1. <<"http">> \in Texts
  <2>1. "http" \in Token
    BY UriAssumption
  <2> QED
    BY <2>1, LengthOne
<1>2. \A s, t \in Texts : s \o t \in Texts
  BY LengthConcat
<1>3. <<"http">> \o SCHEME_SEPARATOR \in Texts
  BY <1>1, <1>2, MarkTypes
<1>4. <<"http">> \o SCHEME_SEPARATOR \o text \in Texts
  BY <1>2, <1>3
<1> QED
  BY <1>4 DEF WithScheme

-------------------------------------------------------------------------------
(* The head of an answer *)

LEMMA LineStartsType ==
    ASSUME NEW text \in Texts
    PROVE  /\ LineStarts(text) \in Seq(Nat \ {0})
           /\ Len(LineStarts(text)) = Len(Pieces(text, {CRLF})) - 1
           /\ \A n \in 1 .. Len(LineStarts(text)) :
                LineStarts(text)[n] = Pieces(text, {CRLF})[n].end + 1
<1> DEFINE p == Pieces(text, {CRLF})
<1>1. Len(p) \in Nat \ {0} /\ \A n \in 1 .. Len(p) : p[n].end \in 1 .. Len(text) + 1
  BY PiecesAre
<1>2. LineStarts(text) = [n \in 1 .. (Len(p) - 1) |-> p[n].end + 1]
  BY DEF LineStarts
<1> HIDE DEF p
<1>3. \A n \in 1 .. Len(p) - 1 : p[n].end + 1 \in Nat \ {0}
  <2>1. Len(text) \in Nat /\ \A n \in 1 .. Len(p) - 1 : n \in 1 .. Len(p)
    BY <1>1, TextFacts
  <2> QED
    BY <1>1, <2>1
<1>4. LineStarts(text) \in [1 .. Len(p) - 1 -> Nat \ {0}]
  BY <1>2, <1>3
<1>5. \A m \in Nat : \A x \in [1 .. m -> Nat \ {0}] : x \in Seq(Nat \ {0}) /\ Len(x) = m
  OBVIOUS
<1>6. LineStarts(text) \in Seq(Nat \ {0}) /\ Len(LineStarts(text)) = Len(p) - 1
  <2>1. Len(p) - 1 \in Nat
    BY <1>1
  <2> QED
    BY <1>4, <1>5, <2>1, Zenon
<1> QED
  BY <1>2, <1>6 DEF p

LEMMA SeparatorIs ==
    ASSUME NEW text \in Texts, NEW from \in Nat \ {0}
    PROVE  /\ Separator(text, from) \in Nat
           /\ Separator(text, from) = 0 =>
                \A k \in from .. Len(text) - 1 : ~(text[k] = COLON /\ text[k + 1] = SPACE)
           /\ Separator(text, from) # 0 =>
                /\ Separator(text, from) \in from .. Len(text) - 1
                /\ text[Separator(text, from)] = COLON /\ text[Separator(text, from) + 1] = SPACE
                /\ \A k \in from .. Separator(text, from) - 1 : ~(text[k] = COLON /\ text[k + 1] = SPACE)
<1> DEFINE hits == {k \in from .. (Len(text) - 1) : text[k] = COLON /\ text[k + 1] = SPACE}
<1>1. Len(text) \in Nat
  BY TextFacts
<1>2. CASE hits = {}
  <2>1. Separator(text, from) = 0
    BY <1>2 DEF Separator
  <2>2. \A k \in from .. Len(text) - 1 : ~(text[k] = COLON /\ text[k + 1] = SPACE)
    BY <1>2
  <2> QED
    BY <2>1, <2>2
<1>3. CASE hits # {}
  <2> DEFINE f == Separator(text, from)
  <2>1. f = Min(hits) /\ hits \in SUBSET Nat
    BY <1>1, <1>3 DEF Separator
  <2>2. f \in hits /\ \A m \in hits : f <= m
    <3> HIDE DEF hits, f
    <3> QED
      BY <1>3, <2>1, MinOf
  <2>3. f \in from .. Len(text) - 1 /\ text[f] = COLON /\ text[f + 1] = SPACE
    BY <2>2
  <2>4. \A k \in from .. f - 1 : ~(text[k] = COLON /\ text[k + 1] = SPACE)
    <3> TAKE k \in from .. f - 1
    <3> SUFFICES ASSUME text[k] = COLON, text[k + 1] = SPACE PROVE FALSE
      OBVIOUS
    <3> HIDE DEF f
    <3>1. k \in hits
      BY <1>1, <2>3
    <3>2. f <= k
      BY <2>2, <3>1
    <3> HIDE DEF hits
    <3> QED
      BY <1>1, <2>3, <3>2
  <2> HIDE DEF hits
  <2> QED
    BY <1>1, <2>1, <2>3, <2>4
<1> QED
  BY <1>2, <1>3

(* One more field, or the end *)
LEMMA WithFieldType ==
    ASSUME NEW text \in Texts, NEW start \in Nat \ {0}, NEW old \in ResponseType
    PROVE  WithField(old, text, start) \in ResponseType
<1> DEFINE separator == Separator(text, start)
           end == LineEnd(text, start)
           key == SubSeq(text, start, separator - 1)
           value == SubSeq(text, separator + 2, end - 1)
           result == FieldResult(separator, end, key, value)
<1>1. Len(text) \in Nat
  BY TextFacts
<1>2. separator \in Nat /\ separator <= Len(text)
  <2> HIDE DEF separator
  <2>1. separator \in Nat /\ (separator # 0 => separator \in start .. Len(text) - 1)
    BY SeparatorIs DEF separator
  <2> QED
    BY <1>1, <2>1
<1>3. end \in 1 .. Len(text) + 1
  <2>1. Find(CRLF, text, start) \in 0 .. Len(text)
    BY Found
  <2> QED
    BY <1>1, <2>1 DEF LineEnd, Or
<1> HIDE DEF separator, end
<1>4. key \in Texts /\ value \in Texts
  <2>1. separator - 1 \in Int /\ separator - 1 <= Len(text)
    BY <1>1, <1>2
  <2>2. separator + 2 \in Nat \ {0} /\ end - 1 \in Int /\ end - 1 <= Len(text)
    BY <1>1, <1>2, <1>3
  <2> QED
    BY <2>1, <2>2, Sub
<1>5. WithField(old, text, start)
        = IF result = "SUCCESS" THEN [old EXCEPT !.headers = Append(old.headers, [key |-> key, value |-> value])]
          ELSE [old EXCEPT !.code = result]
  BY DEF WithField, WithFieldAt, separator, end
<1>6. result \in ResponseCodes /\ (result = "SUCCESS" => key # <<>> /\ value # <<>>)
  <2> HIDE DEF key, value
  <2>1. \/ result = "HTTP_MALFORMED_HEADER" \/ result = "HTTP_MISSING_HEADER_NAME"
        \/ result = "HTTP_HEADER_CONTAINS_INVALID_CHARACTER"
        \/ result = "HTTP_MISSING_HEADER_VALUE" \/ (result = "SUCCESS" /\ key # <<>> /\ value # <<>>)
    BY Zenon DEF FieldResult
  <2> HIDE DEF result
  <2>2. result \in ResponseCodes
    BY <2>1 DEF ResponseCodes
  <2>3. result = "SUCCESS" => key # <<>> /\ value # <<>>
    BY <2>1
  <2> QED
    BY <2>2, <2>3
<1> HIDE DEF key, value, result
<1>7. /\ old.code \in ResponseCodes /\ old.status \in Int /\ old.headers \in Seq(HeaderType)
      /\ old = [code |-> old.code, status |-> old.status, headers |-> old.headers]
  BY DEF ResponseType
<1>8. \A c \in ResponseCodes : \A s \in Int : \A h \in Seq(HeaderType) :
         [code |-> c, status |-> s, headers |-> h] \in ResponseType
  BY DEF ResponseType
<1>9. CASE result = "SUCCESS"
  <2> DEFINE field == [key |-> key, value |-> value]
  <2>1. field \in HeaderType
    BY <1>4, <1>6, <1>9 DEF HeaderType
  <2> HIDE DEF field
  <2>2. Append(old.headers, field) \in Seq(HeaderType)
    BY <1>7, <2>1
  <2>3. WithField(old, text, start) = [code |-> old.code, status |-> old.status, headers |-> Append(old.headers, field)]
    BY <1>5, <1>7, <1>9 DEF field
  <2> QED
    BY <1>7, <1>8, <2>2, <2>3
<1>10. CASE result # "SUCCESS"
  <2>1. WithField(old, text, start) = [code |-> result, status |-> old.status, headers |-> old.headers]
    BY <1>5, <1>7, <1>10
  <2> QED
    BY <1>6, <1>7, <1>8, <2>1
<1> QED
  BY <1>9, <1>10

LEMMA StatusReadType ==
    ASSUME NEW text \in Texts
    PROVE  StatusRead(text) \in ResponseType /\ StatusRead(text).headers = <<>>
<1> DEFINE slash == Find(SLASH, text, 1)
           space == IF slash = 0 THEN 0 ELSE Find(SPACE, text, slash + 1)
           value == SubSeq(text, space + 1, Find(SPACE, text, space + 1) - 1)
           result == StatusResult(text, slash, space, value)
           status == IF space = 0 \/ result \in {"HTTP_UNSUPPORTED_VERSION", "HTTP_MALFORMED_STATUS_CODE"}
                     THEN 0 ELSE AtoI(value)
<1>1. Len(text) \in Nat
  BY TextFacts
<1>2. slash \in 0 .. Len(text)
  BY Found
<1>3. space \in 0 .. Len(text)
  <2> HIDE DEF slash
  <2>1. slash + 1 \in Nat \ {0}
    BY <1>1, <1>2
  <2>2. Find(SPACE, text, slash + 1) \in 0 .. Len(text)
    BY <2>1, Found
  <2> QED
    BY <1>1, <2>2
<1>4. StatusRead(text) = [code |-> result, status |-> status, headers |-> <<>>]
  BY Zenon DEF StatusRead, StatusAfter, StatusBehind
<1> HIDE DEF slash, space
<1>5. value \in Texts
  <2>1. space + 1 \in Nat \ {0}
    BY <1>1, <1>3
  <2>2. Find(SPACE, text, space + 1) \in 0 .. Len(text)
    BY <2>1, Found
  <2>3. Find(SPACE, text, space + 1) - 1 \in Int /\ Find(SPACE, text, space + 1) - 1 <= Len(text)
    BY <1>1, <2>2
  <2> QED
    BY <2>1, <2>3, Sub
<1> HIDE DEF value
<1>6. result \in ResponseCodes
  <2>1. \/ result = "undefined" \/ result = "HTTP_UNSUPPORTED_VERSION" \/ result = "HTTP_MALFORMED_STATUS_CODE"
        \/ result = "HTTP_UNKNOWN_STATUS_CODE" \/ result = "SUCCESS"
    BY Zenon DEF StatusResult
  <2> HIDE DEF result
  <2> QED
    BY <2>1 DEF ResponseCodes
<1>7. status \in Int
  <2>1. CASE IsNumeric(value)
    <3>1. AtoI(value) \in Int
      BY <1>5, <2>1, NumericSeq, AtoIIs
    <3> QED
      BY <3>1
  <2>2. CASE ~IsNumeric(value)
    <3>1. space = 0 \/ result \in {"HTTP_UNSUPPORTED_VERSION", "HTTP_MALFORMED_STATUS_CODE"}
      BY <2>2 DEF StatusResult
    <3>2. status = 0
      BY <3>1
    <3> QED
      BY <3>2
  <2> QED
    BY <2>1, <2>2
<1> HIDE DEF result, status
<1>8. <<>> \in Seq(HeaderType)
  OBVIOUS
<1> QED
  BY <1>4, <1>6, <1>7, <1>8 DEF ResponseType

LEMMA ResponseFold ==
    ASSUME NEW text \in Texts
    PROVE  \E part \in [0 .. Len(LineStarts(text)) -> ResponseType] :
             /\ part[0] = StatusRead(text) /\ part[Len(LineStarts(text))] = parse_http_response(text)
             /\ \A k \in 1 .. Len(LineStarts(text)) : part[k] = (IF part[k - 1].code = "SUCCESS" THEN WithField(part[k - 1], text, LineStarts(text)[k]) ELSE part[k - 1])
<1> DEFINE n == Len(LineStarts(text))
           F == [x \in ResponseType \X (1 .. n) |-> (IF x[1].code = "SUCCESS" THEN WithField(x[1], text, LineStarts(text)[x[2]]) ELSE x[1])]
           Step(it) == [s \in SUBSET DOMAIN LineStarts(text) |->
                          IF s = {} THEN StatusRead(text) ELSE (IF it[s \ {Max(s)}].code = "SUCCESS" THEN WithField(it[s \ {Max(s)}], text, LineStarts(text)[Max(s)]) ELSE it[s \ {Max(s)}])]
           it == CHOOSE f : f = Step(f)
<1>0. StatusRead(text) \in ResponseType
  BY StatusReadType
<1>1. parse_http_response(text) = it[DOMAIN LineStarts(text)]
  BY Zenon DEF parse_http_response, FoldLeft, MapThenFoldSet
<1>2. n \in Nat /\ DOMAIN LineStarts(text) = 1 .. n /\ \A k \in 1 .. n : LineStarts(text)[k] \in Nat \ {0}
  BY LineStartsType
<1>3. \A x \in ResponseType : \A k \in 1 .. n : (IF x.code = "SUCCESS" THEN WithField(x, text, LineStarts(text)[k]) ELSE x) \in ResponseType
  BY <1>2, WithFieldType
<1>4. /\ F \in [ResponseType \X (1 .. n) -> ResponseType]
      /\ \A x \in ResponseType : \A k \in 1 .. n : F[<<x, k>>] = (IF x.code = "SUCCESS" THEN WithField(x, text, LineStarts(text)[k]) ELSE x)
  BY <1>3
<1>5. \A s : Max(s) = Largest(s)
  BY DEF Max, Largest
<1>6. it = Step(it)
  <2> HIDE DEF F, n
  <2>1. PICK f : Recursion(f, ResponseType, n, F, StatusRead(text))
    BY <1>0, <1>2, <1>4, FoldRecursion
  <2>2. \A s \in SUBSET (1 .. n) : f[s] = IF s = {} THEN StatusRead(text) ELSE (IF f[s \ {Max(s)}].code = "SUCCESS" THEN WithField(f[s \ {Max(s)}], text, LineStarts(text)[Max(s)]) ELSE f[s \ {Max(s)}])
    <3> TAKE s \in SUBSET (1 .. n)
    <3>1. s # {} => /\ Largest(s) \in 1 .. n /\ f[s \ {Largest(s)}] \in ResponseType
                    /\ f[s] = F[<<f[s \ {Largest(s)}], Largest(s)>>]
      BY <2>1 DEF Recursion
    <3>2. f[{}] = StatusRead(text)
      BY <2>1 DEF Recursion
    <3> QED
      BY <1>4, <1>5, <3>1, <3>2, Zenon
  <2>3. f = Step(f)
    <3>1. f \in [SUBSET (1 .. n) -> ResponseType] /\ SUBSET DOMAIN LineStarts(text) = SUBSET (1 .. n)
      BY <1>2, <2>1 DEF Recursion
    <3> QED
      BY <2>2, <3>1
  <2> HIDE DEF Step
  <2> QED
    BY <2>3, Zenon
<1> HIDE DEF it
<1>7. it[{}] = StatusRead(text)
  BY <1>2, <1>6
<1>8. \A s \in SUBSET (1 .. n) : s # {} /\ it[s \ {Largest(s)}] \in ResponseType =>
              it[s] = F[<<it[s \ {Largest(s)}], Largest(s)>>]
  <2> TAKE s \in SUBSET (1 .. n)
  <2> SUFFICES ASSUME s # {}, it[s \ {Largest(s)}] \in ResponseType
               PROVE  it[s] = F[<<it[s \ {Largest(s)}], Largest(s)>>]
    OBVIOUS
  <2>1. Largest(s) \in 1 .. n
    BY <1>2, LargestOf
  <2>2. it[s] = (IF it[s \ {Max(s)}].code = "SUCCESS" THEN WithField(it[s \ {Max(s)}], text, LineStarts(text)[Max(s)]) ELSE it[s \ {Max(s)}])
    BY <1>2, <1>6
  <2> HIDE DEF F, n
  <2> QED
    BY <1>4, <1>5, <2>1, <2>2, Zenon
<1> HIDE DEF F, n
<1>9. PICK part : Partials(part, it, ResponseType, n, F, StatusRead(text))
  BY <1>2, <1>4, <1>7, <1>8, <1>0, FoldPartials
<1>10. \A k \in 1 .. n : part[k] = (IF part[k - 1].code = "SUCCESS" THEN WithField(part[k - 1], text, LineStarts(text)[k]) ELSE part[k - 1])
  <2> TAKE k \in 1 .. n
  <2>1. part[k - 1] \in ResponseType /\ part[k] = F[<<part[k - 1], k>>]
    <3>1. k - 1 \in 0 .. n
      BY <1>2
    <3>2. part \in [0 .. n -> ResponseType] /\ \A m \in 1 .. n : part[m] = F[<<part[m - 1], m>>]
      BY <1>9 DEF Partials
    <3> QED
      BY <3>1, <3>2
  <2> QED
    BY <1>4, <2>1, Zenon
<1>11. /\ part \in [0 .. n -> ResponseType]
       /\ part[0] = StatusRead(text) /\ part[n] = parse_http_response(text)
  BY <1>1, <1>2, <1>9 DEF Partials
<1> QED
  BY <1>10, <1>11 DEF n

LEMMA ResponseIsTyped == \A text \in Texts : parse_http_response(text) \in ResponseType
<1> TAKE text \in Texts
<1>1. PICK part \in [0 .. Len(LineStarts(text)) -> ResponseType] :
             part[Len(LineStarts(text))] = parse_http_response(text)
  BY ResponseFold
<1>2. Len(LineStarts(text)) \in 0 .. Len(LineStarts(text))
  BY LineStartsType
<1> QED
  BY <1>1, <1>2

LEMMA LocationType ==
    ASSUME NEW read \in ResponseType, LocationOf(read) # Null
    PROVE  LocationOf(read) \in Texts \ {<<>>}
<1> DEFINE name == <<"Location">>
           hits == {n \in DOMAIN read.headers : read.headers[n].key = name}
<1>1. read.headers \in Seq(HeaderType)
  BY DEF ResponseType
<1>2. LocationOf(read) = http_headers_get(read.headers, name)
  BY DEF LocationOf
<1>3. hits # {} /\ LocationOf(read) = read.headers[Min(hits)].value
  BY <1>2 DEF http_headers_get
<1>4. hits \in SUBSET Nat /\ \A n \in hits : n \in DOMAIN read.headers
  BY <1>1
<1>5. Min(hits) \in hits
  <2> HIDE DEF hits
  <2> QED
    BY <1>3, <1>4, MinOf
<1>6. read.headers[Min(hits)] \in HeaderType
  <2> DEFINE i == Min(hits)
  <2>1. i \in DOMAIN read.headers
    BY <1>4, <1>5, Zenon
  <2> HIDE DEF i
  <2>2. read.headers[i] \in HeaderType
    BY <1>1, <2>1
  <2> QED
    BY <2>2 DEF i
<1> HIDE DEF hits
<1> QED
  BY <1>3, <1>6 DEF HeaderType

-------------------------------------------------------------------------------
(* httpnormpath *)

LEMMA PrefixFits ==
    ASSUME NEW text \in Texts, NEW j \in Int, j <= Len(text)
    PROVE  SubSeq(text, 1, j) \in Texts /\ Length(SubSeq(text, 1, j)) <= Length(text)
<1>1. SubSeq(text, 1, j) \in Texts /\ Length(text) \in Nat /\ Len(text) \in Nat
  BY Sub, LengthType, TextFacts
<1>2. CASE j >= 0
  <2>1. j \in 0 .. Len(text)
    BY <1>1, <1>2
  <2>2. /\ Length(text) = Length(SubSeq(text, 1, j)) + Length(SubSeq(text, j + 1, Len(text)))
        /\ SubSeq(text, j + 1, Len(text)) \in Texts
    BY <2>1, LengthCut
  <2>3. Length(SubSeq(text, 1, j)) \in Nat /\ Length(SubSeq(text, j + 1, Len(text))) \in Nat
    BY <1>1, <2>2, LengthType
  <2> QED
    BY <1>1, <2>2, <2>3
<1>3. CASE ~(j >= 0)
  <2>1. SubSeq(text, 1, j) = <<>>
    BY <1>3, SubSeqEmpty
  <2>2. Length(SubSeq(text, 1, j)) = 0
    <3> HIDE DEF Length
    <3> QED
      BY <2>1, LengthNone
  <2> QED
    BY <1>1, <2>2
<1> QED
  BY <1>2, <1>3

LEMMA LastSlashIs ==
    ASSUME NEW text \in Texts
    PROVE  /\ LastSlash(text) \in 0 .. Len(text)
           /\ LastSlash(text) # 0 => LastSlash(text) \in 1 .. Len(text) /\ text[LastSlash(text)] = SLASH
           /\ \A k \in LastSlash(text) + 1 .. Len(text) : text[k] # SLASH
<1> DEFINE hits == {k \in DOMAIN text : text[k] = SLASH}
<1>1. Len(text) \in Nat /\ DOMAIN text = 1 .. Len(text)
  BY TextFacts
<1>2. CASE hits = {}
  <2>1. LastSlash(text) = 0
    BY <1>2 DEF LastSlash
  <2>2. \A k \in 1 .. Len(text) : text[k] # SLASH
    BY <1>1, <1>2
  <2> QED
    BY <1>1, <2>1, <2>2
<1>3. CASE hits # {}
  <2> DEFINE f == LastSlash(text)
  <2>1. f = Max(hits) /\ hits \in SUBSET (1 .. Len(text))
    BY <1>1, <1>3 DEF LastSlash
  <2>2. f \in hits /\ \A m \in hits : f >= m
    <3> HIDE DEF hits, f
    <3> QED
      BY <1>1, <1>3, <2>1, MaxOf
  <2>3. f \in 1 .. Len(text) /\ text[f] = SLASH
    BY <1>1, <2>2
  <2>4. \A k \in f + 1 .. Len(text) : text[k] # SLASH
    <3> TAKE k \in f + 1 .. Len(text)
    <3> SUFFICES ASSUME text[k] = SLASH PROVE FALSE
      OBVIOUS
    <3> HIDE DEF f
    <3>1. k \in hits
      BY <1>1, <2>3
    <3>2. f >= k
      BY <2>2, <3>1
    <3> HIDE DEF hits
    <3> QED
      BY <1>1, <2>3, <3>2
  <2> HIDE DEF hits
  <2> QED
    BY <1>1, <2>3, <2>4
<1> QED
  BY <1>2, <1>3

LEMMA WithoutBaseFits ==
    \A text \in Texts : WithoutBase(text) \in Texts /\ Length(WithoutBase(text)) <= Length(text)
<1> TAKE text \in Texts
<1>1. LastSlash(text) - 1 \in Int /\ LastSlash(text) - 1 <= Len(text)
  <2>1. LastSlash(text) \in 0 .. Len(text) /\ Len(text) \in Nat
    BY LastSlashIs, TextFacts
  <2> QED
    BY <2>1
<1> QED
  BY <1>1, PrefixFits DEF WithoutBase

Normal == [path : Texts, before : BOOLEAN]

(* A component makes the path longer by itself and a "/" at most *)
LEMMA WithComponentFits ==
    ASSUME NEW normal \in Normal, NEW comp \in Texts
    PROVE  /\ WithComponent(normal, comp) \in Normal
           /\ Length(WithComponent(normal, comp).path) <= Length(normal.path) + 1 + Length(comp)
<1> DEFINE p == normal.path
           more == p \o <<SLASH>> \o comp
           one == WithoutBase(p)
           two == WithoutBase(one)
<1>1. /\ normal.before \in BOOLEAN /\ p \in Texts
      /\ normal = [path |-> p, before |-> normal.before]
  BY DEF Normal
<1>2. Length(p) \in Nat /\ Length(comp) \in Nat
  BY <1>1, LengthType
<1>3. more \in Texts /\ Length(more) = Length(p) + 1 + Length(comp)
  <2>1. <<SLASH>> \in Texts /\ Length(<<SLASH>>) = 1
    BY MarkTypes, LengthOne
  <2>2. p \o <<SLASH>> \in Texts /\ Length(p \o <<SLASH>>) = Length(p) + 1
    BY <1>1, <2>1, LengthConcat
  <2>3. more \in Texts /\ Length(more) = Length(p \o <<SLASH>>) + Length(comp)
    BY <2>2, LengthConcat
  <2> QED
    BY <2>2, <2>3
<1>4. one \in Texts /\ Length(one) <= Length(p) /\ Length(one) \in Nat
  BY <1>1, WithoutBaseFits, LengthType
<1>5. two \in Texts /\ Length(two) <= Length(one) /\ Length(two) \in Nat
  <2> HIDE DEF one
  <2> QED
    BY <1>4, WithoutBaseFits, LengthType
<1>6. \/ WithComponent(normal, comp) = normal
      \/ WithComponent(normal, comp) = [normal EXCEPT !.path = more]
      \/ WithComponent(normal, comp) = [path |-> two, before |-> normal.before \/ one = <<>>]
      \/ WithComponent(normal, comp) = [normal EXCEPT !.path = one]
  BY Zenon DEF WithComponent
<1> HIDE DEF p, more, one, two
<1>7. /\ [normal EXCEPT !.path = more] = [path |-> more, before |-> normal.before]
      /\ [normal EXCEPT !.path = one] = [path |-> one, before |-> normal.before]
  BY <1>1
<1>8. \A t \in Texts : \A b \in BOOLEAN : [path |-> t, before |-> b] \in Normal /\ [path |-> t, before |-> b].path = t
  BY DEF Normal
<1>9. \E t \in Texts : \E b \in BOOLEAN :
         WithComponent(normal, comp) = [path |-> t, before |-> b] /\ Length(t) <= Length(p) + 1 + Length(comp)
  <2>1. CASE WithComponent(normal, comp) = normal
    <3>1. Length(p) <= Length(p) + 1 + Length(comp)
      BY <1>2
    <3> QED
      BY <1>1, <2>1, <3>1
  <2>2. CASE WithComponent(normal, comp) = [normal EXCEPT !.path = more]
    <3>1. Length(more) <= Length(p) + 1 + Length(comp)
      BY <1>2, <1>3
    <3> QED
      BY <1>1, <1>3, <1>7, <2>2, <3>1
  <2>3. CASE WithComponent(normal, comp) = [path |-> two, before |-> normal.before \/ one = <<>>]
    <3>1. Length(two) <= Length(p) + 1 + Length(comp) /\ (normal.before \/ one = <<>>) \in BOOLEAN
      BY <1>2, <1>4, <1>5
    <3> QED
      BY <1>5, <2>3, <3>1
  <2>4. CASE WithComponent(normal, comp) = [normal EXCEPT !.path = one]
    <3>1. Length(one) <= Length(p) + 1 + Length(comp)
      BY <1>2, <1>4
    <3> QED
      BY <1>1, <1>4, <1>7, <2>4, <3>1
  <2> QED
    BY <1>6, <2>1, <2>2, <2>3, <2>4
<1> QED
  BY <1>8, <1>9 DEF p

LEMMA MarksAre == \A c \in Marks : c \in Token /\ Size[c] = 1
BY MarkTypes DEF Marks

(* The components are the first pieces *)
LEMMA ComponentsAre ==
    ASSUME NEW path \in Texts
    PROVE  LET all == Pieces(path, Marks)
               comps == Components(path)
               last(n) == all[n].text # <<>> /\ all[n].end <= Len(path) /\ path[all[n].end] # SLASH
           IN  /\ comps \in Seq(PieceType) /\ Len(comps) \in 1 .. Len(all) /\ Len(comps) \in Nat \ {0}
               /\ DOMAIN comps = 1 .. Len(comps)
               /\ \A n \in 1 .. Len(comps) : comps[n] = all[n] /\ comps[n].text \in Texts
               /\ \A n \in 1 .. Len(comps) - 1 : ~last(n)
               /\ Len(comps) = Len(all) \/ last(Len(comps))
<1> DEFINE all == Pieces(path, Marks)
           comps == Components(path)
           last(n) == all[n].text # <<>> /\ all[n].end <= Len(path) /\ path[all[n].end] # SLASH
           ends == {n \in DOMAIN all : last(n)} \cup {Len(all)}
           m == Min(ends)
<1>1. /\ all \in Seq(PieceType) /\ Len(all) \in Nat \ {0} /\ DOMAIN all = 1 .. Len(all)
      /\ \A n \in 1 .. Len(all) : all[n].text \in Texts
  BY PiecesAre
<1>2. comps = SubSeq(all, 1, m)
  BY Zenon DEF Components
<1> HIDE DEF all, last, comps
<1>3. ends \in SUBSET Nat /\ ends # {} /\ \A n \in ends : n \in 1 .. Len(all)
  BY <1>1
<1>4. m \in ends /\ \A n \in ends : m <= n
  <2> HIDE DEF ends
  <2> QED
    BY <1>3, MinOf
<1>5. m \in 1 .. Len(all) /\ m \in Nat \ {0}
  <2>1. m \in 1 .. Len(all)
    BY <1>3, <1>4, Zenon
  <2> QED
    BY <1>1, <2>1
<1>6. \A n \in 1 .. m - 1 : ~last(n)
  <2> TAKE n \in 1 .. m - 1
  <2> SUFFICES ASSUME last(n) PROVE FALSE
    OBVIOUS
  <2> HIDE DEF m
  <2>1. n \in 1 .. Len(all) /\ n < m /\ n \in Nat
    BY <1>1, <1>5
  <2>2. n \in ends
    BY <1>1, <2>1
  <2>3. m <= n
    BY <1>4, <2>2
  <2> HIDE DEF ends
  <2> QED
    BY <1>5, <2>1, <2>3
<1>7. m = Len(all) \/ last(m)
  BY <1>4
<1> HIDE DEF ends, m
<1>8. comps \in Seq(PieceType) /\ Len(comps) = m /\ DOMAIN comps = 1 .. m /\ \A n \in 1 .. m : comps[n] = all[n]
  BY <1>1, <1>2, <1>5
<1>9. \A n \in 1 .. Len(comps) : comps[n].text \in Texts
  <2> TAKE n \in 1 .. Len(comps)
  <2>1. n \in 1 .. Len(all) /\ comps[n] = all[n]
    BY <1>1, <1>5, <1>8
  <2> QED
    BY <1>1, <2>1
<1> QED
  BY <1>5, <1>6, <1>7, <1>8, <1>9 DEF all, last, comps

LEMMA NormalFold ==
    ASSUME NEW path \in Texts
    PROVE  \E part \in [0 .. Len(Components(path)) -> Normal] :
             /\ part[0] = [path |-> <<>>, before |-> FALSE] /\ part[Len(Components(path))] = Normalised(path)
             /\ \A k \in 1 .. Len(Components(path)) : part[k] = WithComponent(part[k - 1], Components(path)[k].text)
<1> DEFINE n == Len(Components(path))
           F == [x \in Normal \X (1 .. n) |-> WithComponent(x[1], Components(path)[x[2]].text)]
           Step(it) == [s \in SUBSET DOMAIN Components(path) |->
                          IF s = {} THEN [path |-> <<>>, before |-> FALSE] ELSE WithComponent(it[s \ {Max(s)}], Components(path)[Max(s)].text)]
           it == CHOOSE f : f = Step(f)
<1>0. [path |-> <<>>, before |-> FALSE] \in Normal
  BY DEF Normal, Texts
<1>1. Normalised(path) = it[DOMAIN Components(path)]
  BY Zenon DEF Normalised, FoldLeft, MapThenFoldSet
<1>2. n \in Nat /\ DOMAIN Components(path) = 1 .. n /\ \A k \in 1 .. n : Components(path)[k] \in PieceType
  BY ComponentsAre
<1>3. \A x \in Normal : \A k \in 1 .. n : WithComponent(x, Components(path)[k].text) \in Normal
  BY <1>2, WithComponentFits DEF PieceType
<1>4. /\ F \in [Normal \X (1 .. n) -> Normal]
      /\ \A x \in Normal : \A k \in 1 .. n : F[<<x, k>>] = WithComponent(x, Components(path)[k].text)
  BY <1>3
<1>5. \A s : Max(s) = Largest(s)
  BY DEF Max, Largest
<1>6. it = Step(it)
  <2> HIDE DEF F, n
  <2>1. PICK f : Recursion(f, Normal, n, F, [path |-> <<>>, before |-> FALSE])
    BY <1>0, <1>2, <1>4, FoldRecursion
  <2>2. \A s \in SUBSET (1 .. n) : f[s] = IF s = {} THEN [path |-> <<>>, before |-> FALSE] ELSE WithComponent(f[s \ {Max(s)}], Components(path)[Max(s)].text)
    <3> TAKE s \in SUBSET (1 .. n)
    <3>1. s # {} => /\ Largest(s) \in 1 .. n /\ f[s \ {Largest(s)}] \in Normal
                    /\ f[s] = F[<<f[s \ {Largest(s)}], Largest(s)>>]
      BY <2>1 DEF Recursion
    <3>2. f[{}] = [path |-> <<>>, before |-> FALSE]
      BY <2>1 DEF Recursion
    <3> QED
      BY <1>4, <1>5, <3>1, <3>2, Zenon
  <2>3. f = Step(f)
    <3>1. f \in [SUBSET (1 .. n) -> Normal] /\ SUBSET DOMAIN Components(path) = SUBSET (1 .. n)
      BY <1>2, <2>1 DEF Recursion
    <3> QED
      BY <2>2, <3>1
  <2> HIDE DEF Step
  <2> QED
    BY <2>3, Zenon
<1> HIDE DEF it
<1>7. it[{}] = [path |-> <<>>, before |-> FALSE]
  BY <1>2, <1>6
<1>8. \A s \in SUBSET (1 .. n) : s # {} /\ it[s \ {Largest(s)}] \in Normal =>
              it[s] = F[<<it[s \ {Largest(s)}], Largest(s)>>]
  <2> TAKE s \in SUBSET (1 .. n)
  <2> SUFFICES ASSUME s # {}, it[s \ {Largest(s)}] \in Normal
               PROVE  it[s] = F[<<it[s \ {Largest(s)}], Largest(s)>>]
    OBVIOUS
  <2>1. Largest(s) \in 1 .. n
    BY <1>2, LargestOf
  <2>2. it[s] = WithComponent(it[s \ {Max(s)}], Components(path)[Max(s)].text)
    BY <1>2, <1>6
  <2> HIDE DEF F, n
  <2> QED
    BY <1>4, <1>5, <2>1, <2>2, Zenon
<1> HIDE DEF F, n
<1>9. PICK part : Partials(part, it, Normal, n, F, [path |-> <<>>, before |-> FALSE])
  BY <1>2, <1>4, <1>7, <1>8, <1>0, FoldPartials
<1>10. \A k \in 1 .. n : part[k] = WithComponent(part[k - 1], Components(path)[k].text)
  <2> TAKE k \in 1 .. n
  <2>1. part[k - 1] \in Normal /\ part[k] = F[<<part[k - 1], k>>]
    <3>1. k - 1 \in 0 .. n
      BY <1>2
    <3>2. part \in [0 .. n -> Normal] /\ \A m \in 1 .. n : part[m] = F[<<part[m - 1], m>>]
      BY <1>9 DEF Partials
    <3> QED
      BY <3>1, <3>2
  <2> QED
    BY <1>4, <2>1, Zenon
<1>11. /\ part \in [0 .. n -> Normal]
       /\ part[0] = [path |-> <<>>, before |-> FALSE] /\ part[n] = Normalised(path)
  BY <1>1, <1>2, <1>9 DEF Partials
<1> QED
  BY <1>10, <1>11 DEF n

(* After each component the path is no longer than what was read and a "/" *)
LEMMA NormalFits ==
    ASSUME NEW path \in Texts
    PROVE  LET end == Last(Components(path)).end
           IN  /\ Normalised(path) \in Normal /\ end \in 1 .. Len(path) + 1
               /\ Length(Normalised(path).path) <= Length(SubSeq(path, 1, end - 1)) + 1
<1> DEFINE all == Pieces(path, Marks)
           comps == Components(path)
           m == Len(comps)
           read(k) == SubSeq(path, 1, comps[k].end - 1)
<1>1. /\ comps \in Seq(PieceType) /\ m \in Nat \ {0} /\ m \in 1 .. Len(all)
      /\ \A n \in 1 .. m : comps[n] = all[n] /\ comps[n].text \in Texts
  BY ComponentsAre
<1>2. /\ Len(all) \in Nat \ {0} /\ \A n \in 1 .. Len(all) - 1 : all[n].end <= Len(path)
      /\ \A n \in 1 .. Len(all) :
           /\ StartOf(all, n) \in 1 .. Len(path) + 1
           /\ all[n].end = Before(path, StartOf(all, n), Marks)
           /\ all[n].text = SubSeq(path, StartOf(all, n), all[n].end - 1)
           /\ all[n].end \in 1 .. Len(path) + 1
  BY PiecesAre
<1>3. PICK part \in [0 .. m -> Normal] :
             /\ part[0] = [path |-> <<>>, before |-> FALSE] /\ part[m] = Normalised(path)
             /\ \A k \in 1 .. m : part[k] = WithComponent(part[k - 1], comps[k].text)
  BY NormalFold
<1>4. Len(path) \in Nat
  BY TextFacts
<1> HIDE DEF all, comps
<1>5. \A k \in 1 .. m : /\ read(k) \in Texts /\ Length(read(k)) \in Nat /\ Length(comps[k].text) \in Nat
                        /\ comps[k].end \in 1 .. Len(path) + 1
  <2> TAKE k \in 1 .. m
  <2>1. k \in 1 .. Len(all) /\ comps[k] = all[k]
    BY <1>1, <1>2
  <2>2. comps[k].end \in 1 .. Len(path) + 1
    BY <1>2, <2>1
  <2>3. comps[k].end - 1 \in Int /\ comps[k].end - 1 <= Len(path)
    BY <1>4, <2>2
  <2>4. read(k) \in Texts
    BY <2>3, PrefixFits
  <2> QED
    BY <1>1, <2>2, <2>4, LengthType
<1>6. Length(comps[1].text) = Length(read(1))
  <2>1. 1 \in 1 .. m /\ 1 \in 1 .. Len(all) /\ StartOf(all, 1) = 1
    BY <1>1, <1>2 DEF StartOf
  <2>2. comps[1].text = read(1)
    BY <1>1, <1>2, <2>1
  <2> QED
    BY <2>2
<1>7. \A k \in 2 .. m : Length(read(k)) = Length(read(k - 1)) + 1 + Length(comps[k].text)
  <2> TAKE k \in 2 .. m
  <2> DEFINE a == comps[k - 1].end
             b == comps[k].end
  <2>1. k \in 1 .. Len(all) /\ k - 1 \in 1 .. Len(all) - 1 /\ k - 1 \in 1 .. Len(all) /\ k # 1 /\ k \in 1 .. m /\ k - 1 \in 1 .. m
    BY <1>1, <1>2
  <2>2. comps[k] = all[k] /\ comps[k - 1] = all[k - 1] /\ StartOf(all, k) = a + 1
    BY <1>1, <2>1 DEF StartOf
  <2>3. a \in 1 .. Len(path) /\ b \in a + 1 .. Len(path) + 1 /\ path[a] \in Marks
    <3>1. a <= Len(path) /\ a = Before(path, StartOf(all, k - 1), Marks) /\ StartOf(all, k - 1) \in 1 .. Len(path) + 1
          /\ a \in 1 .. Len(path) + 1
      BY <1>2, <2>1, <2>2
    <3>2. path[a] \in Marks
      BY <3>1, FoundBefore
    <3>3. b = Before(path, a + 1, Marks) /\ a + 1 \in 1 .. Len(path) + 1
      BY <1>2, <2>1, <2>2
    <3>4. b \in a + 1 .. Len(path) + 1
      BY <3>3, FoundBefore
    <3> QED
      BY <1>4, <3>1, <3>2, <3>4
  <2>4. comps[k].text = SubSeq(path, a + 1, b - 1)
    BY <1>2, <2>1, <2>2
  <2>5. read(k) = SubSeq(path, 1, b - 1) /\ read(k - 1) = SubSeq(path, 1, a - 1)
    OBVIOUS
  <2> HIDE DEF a, b
  <2>6. SubSeq(path, 1, a) \o SubSeq(path, a + 1, b - 1) = SubSeq(path, 1, b - 1)
    <3>1. 1 \in 1 .. Len(path) + 1 /\ a \in 1 - 1 .. Len(path) /\ b - 1 \in a .. Len(path)
      BY <1>4, <2>3
    <3> QED
      BY <3>1, ConcatAdjacentSubSeq DEF Texts
  <2>7. SubSeq(path, 1, a) = Append(SubSeq(path, 1, a - 1), path[a])
    BY <2>3 DEF Texts
  <2>8. path[a] \in Token /\ Size[path[a]] = 1
    BY <2>3, MarksAre
  <2>9. SubSeq(path, 1, a - 1) \in Texts /\ SubSeq(path, 1, a) \in Texts /\ SubSeq(path, a + 1, b - 1) \in Texts
    <3>1. a - 1 \in Int /\ a - 1 <= Len(path) /\ a \in Int /\ a <= Len(path) /\ a + 1 \in Nat \ {0}
          /\ b - 1 \in Int /\ b - 1 <= Len(path)
      BY <1>4, <2>3
    <3> QED
      BY <3>1, PrefixFits, Sub
  <2>10. Length(SubSeq(path, 1, a)) = Length(SubSeq(path, 1, a - 1)) + 1
    BY <2>7, <2>8, <2>9, LengthAppend
  <2>11. Length(SubSeq(path, 1, b - 1)) = Length(SubSeq(path, 1, a)) + Length(SubSeq(path, a + 1, b - 1))
    BY <2>6, <2>9, LengthConcat
  <2> QED
    BY <2>4, <2>5, <2>10, <2>11
<1>8. \A k \in 1 .. m :
         /\ part[k - 1] \in Normal /\ part[k] \in Normal
         /\ Length(part[k].path) \in Nat /\ Length(part[k - 1].path) \in Nat
         /\ Length(part[k].path) <= Length(part[k - 1].path) + 1 + Length(comps[k].text)
  <2> TAKE k \in 1 .. m
  <2>1. k - 1 \in 0 .. m /\ k \in 0 .. m
    BY <1>1
  <2>2. part[k - 1] \in Normal /\ part[k] \in Normal /\ comps[k].text \in Texts
    BY <1>1, <1>3, <2>1
  <2>3. part[k] = WithComponent(part[k - 1], comps[k].text)
    BY <1>3
  <2>4. Length(part[k].path) <= Length(part[k - 1].path) + 1 + Length(comps[k].text)
    BY <2>2, <2>3, WithComponentFits
  <2>5. part[k].path \in Texts /\ part[k - 1].path \in Texts
    BY <2>2 DEF Normal
  <2> QED
    BY <2>2, <2>4, <2>5, LengthType
<1> HIDE DEF read
<1> DEFINE Q == {j \in 0 .. m - 1 : Length(part[j + 1].path) <= Length(read(j + 1)) + 1}
<1>9. 0 \in Q
  <2>1. 1 \in 1 .. m /\ 1 - 1 = 0 /\ 0 + 1 = 1 /\ 0 \in 0 .. m - 1
    BY <1>1
  <2>2. Length(part[0].path) = 0
    BY <1>3, LengthNone
  <2>3. /\ Length(part[1].path) <= Length(part[1 - 1].path) + 1 + Length(comps[1].text)
        /\ Length(part[1].path) \in Nat
    BY <1>8, <2>1
  <2>4. Length(part[1 - 1].path) = 0
    BY <2>1, <2>2
  <2>5. Length(part[1].path) <= 1 + Length(comps[1].text)
    BY <2>3, <2>4
  <2>6. Length(part[1].path) <= Length(read(1)) + 1
    BY <1>5, <1>6, <2>1, <2>3, <2>5
  <2> QED
    BY <2>1, <2>6
<1>10. ASSUME NEW j \in 1 .. m - 1, j - 1 \in Q PROVE j \in Q
  <2> DEFINE k == j + 1
  <2>1. k \in 2 .. m /\ k \in 1 .. m /\ k - 1 \in 1 .. m /\ k - 1 = j /\ j \in 0 .. m - 1 /\ (j - 1) + 1 = j
    BY <1>1
  <2>2. Length(part[j].path) <= Length(read(j)) + 1
    BY <1>10, <2>1
  <2> HIDE DEF k
  <2>3. Length(part[k].path) <= Length(part[j].path) + 1 + Length(comps[k].text)
    BY <1>8, <2>1
  <2>4. Length(read(k)) = Length(read(j)) + 1 + Length(comps[k].text)
    BY <1>7, <2>1
  <2>5. /\ Length(part[k].path) \in Nat /\ Length(part[j].path) \in Nat /\ Length(read(j)) \in Nat
        /\ Length(read(k)) \in Nat /\ Length(comps[k].text) \in Nat
    BY <1>5, <1>8, <2>1
  <2>6. Length(part[k].path) <= Length(read(k)) + 1
    BY <2>2, <2>3, <2>4, <2>5
  <2> QED
    BY <2>1, <2>6 DEF k
<1>11. m - 1 \in Q
  <2>1. m - 1 \in Nat /\ m - 1 \in 0 .. m - 1
    BY <1>1
  <2> HIDE DEF Q
  <2> QED
    BY <1>9, <1>10, <2>1, UpToInduction
<1>12. (m - 1) + 1 = m /\ m \in 1 .. m
  BY <1>1
<1>13. Length(part[m].path) <= Length(read(m)) + 1
  BY <1>11, <1>12
<1>14. Last(comps).end = comps[m].end /\ comps[m].end \in 1 .. Len(path) + 1 /\ part[m] \in Normal
  BY <1>5, <1>8, <1>12 DEF Last
<1> QED
  BY <1>3, <1>13, <1>14 DEF comps, read

(* The buffer of a path that is normalised holds what is made of it *)
LEMMA NormPathFits ==
    ASSUME NEW path \in Texts
    PROVE  httpnormpath(path) \in Texts /\ Length(httpnormpath(path)) <= Length(path) + 1
<1> DEFINE end == Last(Components(path)).end
           front == SubSeq(path, 1, end - 1)
           rest == SubSeq(path, end, Len(path))
           normal == Normalised(path).path
<1>1. normal \in Texts /\ end \in 1 .. Len(path) + 1 /\ Length(normal) <= Length(front) + 1 /\ Len(path) \in Nat
  BY NormalFits, TextFacts DEF Normal
<1>2. httpnormpath(path) = OrSlash(normal) \o rest
  BY DEF httpnormpath
<1> HIDE DEF end, normal
<1>3. front \in Texts /\ rest \in Texts /\ Length(path) = Length(front) + Length(rest)
  <2> DEFINE k == end - 1
  <2>1. k \in 0 .. Len(path) /\ k + 1 = end
    BY <1>1
  <2> HIDE DEF k
  <2>2. /\ SubSeq(path, 1, k) \in Texts /\ SubSeq(path, k + 1, Len(path)) \in Texts
        /\ Length(path) = Length(SubSeq(path, 1, k)) + Length(SubSeq(path, k + 1, Len(path)))
    BY <2>1, LengthCut
  <2> QED
    BY <2>1, <2>2 DEF k
<1> HIDE DEF front, rest
<1>4. Length(front) \in Nat /\ Length(rest) \in Nat /\ Length(normal) \in Nat
  BY <1>1, <1>3, LengthType
<1>5. OrSlash(normal) \in Texts /\ Length(OrSlash(normal)) <= Length(front) + 1 /\ Length(OrSlash(normal)) \in Nat
  <2>1. <<SLASH>> \in Texts /\ Length(<<SLASH>>) = 1
    BY MarkTypes, LengthOne
  <2>2. CASE normal = <<>>
    BY <1>4, <2>1, <2>2 DEF OrSlash
  <2>3. CASE normal # <<>>
    BY <1>1, <1>4, <2>3 DEF OrSlash
  <2> QED
    BY <2>2, <2>3
<1>6. httpnormpath(path) \in Texts /\ Length(httpnormpath(path)) = Length(OrSlash(normal)) + Length(rest)
  BY <1>2, <1>3, <1>5, LengthConcat
<1> QED
  BY <1>3, <1>4, <1>5, <1>6

-------------------------------------------------------------------------------
(* The components that the code takes a path apart into and the segments of   *)
(* the RFC                                                                    *)

(* The path of a text that begins with "/", without that and without what     *)
(* follows the path                                                           *)
Stop(text)   == Before(text, 1, {QUESTION_MARK, HASHTAG})
InPath(text) == SubSeq(text, 2, Stop(text) - 1)

LEMMA InPathIs ==
    ASSUME NEW text \in Texts, text # <<>>, text[1] = SLASH
    PROVE  /\ Stop(text) \in 2 .. Len(text) + 1
           /\ Stop(text) <= Len(text) => text[Stop(text)] \in {QUESTION_MARK, HASHTAG}
           /\ \A k \in 1 .. Stop(text) - 1 : text[k] \notin {QUESTION_MARK, HASHTAG}
           /\ InPath(text) \in Texts /\ Len(InPath(text)) = Stop(text) - 2
           /\ \A k \in 1 .. Stop(text) - 2 : InPath(text)[k] = text[k + 1]
<1>1. Len(text) \in Nat \ {0} /\ 1 \in 1 .. Len(text) + 1
  BY TextFacts
<1>2. /\ Stop(text) \in 1 .. Len(text) + 1
      /\ Stop(text) <= Len(text) => text[Stop(text)] \in {QUESTION_MARK, HASHTAG}
      /\ \A k \in 1 .. Stop(text) - 1 : text[k] \notin {QUESTION_MARK, HASHTAG}
  BY <1>1, FoundBefore DEF Stop
<1>3. Stop(text) # 1
  BY <1>1, <1>2 DEF SLASH, QUESTION_MARK, HASHTAG
<1>4. Stop(text) \in 2 .. Len(text) + 1
  BY <1>1, <1>2, <1>3
<1> DEFINE q == Stop(text)
<1> HIDE DEF q
<1>5. q \in 2 .. Len(text) + 1 /\ q - 1 \in Int /\ q - 1 <= Len(text) /\ 2 \in Nat \ {0}
  BY <1>1, <1>4 DEF q
<1>6. /\ SubSeq(text, 2, q - 1) \in Texts
      /\ Len(SubSeq(text, 2, q - 1)) = IF 2 <= q - 1 THEN (q - 1) - 2 + 1 ELSE 0
      /\ \A k \in 1 .. (q - 1) - 2 + 1 : SubSeq(text, 2, q - 1)[k] = text[2 + k - 1]
  BY <1>5, Sub
<1>7. InPath(text) = SubSeq(text, 2, q - 1)
  BY DEF InPath, q
<1>8. Len(InPath(text)) = q - 2 /\ \A k \in 1 .. q - 2 : InPath(text)[k] = text[k + 1]
  <2>1. Len(InPath(text)) = q - 2
    BY <1>5, <1>6, <1>7
  <2>2. ASSUME NEW k \in 1 .. q - 2 PROVE InPath(text)[k] = text[k + 1]
    <3>1. k \in 1 .. (q - 1) - 2 + 1 /\ 2 + k - 1 = k + 1
      BY <1>5
    <3> QED
      BY <1>6, <1>7, <3>1
  <2> QED
    BY <2>1, <2>2
<1> QED
  BY <1>2, <1>4, <1>6, <1>7, <1>8 DEF q

(* Up to there the code looks for any mark and finds the "/" *)
LEMMA MarksInPath ==
    ASSUME NEW text \in Texts, text # <<>>, text[1] = SLASH,
           NEW s \in 1 .. Len(InPath(text)) + 1
    PROVE  Before(text, s + 1, Marks) = Before(InPath(text), s, {SLASH}) + 1
<1> DEFINE q == Stop(text)
           path == InPath(text)
           e == Before(path, s, {SLASH})
<1>1. /\ q \in 2 .. Len(text) + 1
      /\ q <= Len(text) => text[q] \in {QUESTION_MARK, HASHTAG}
      /\ \A k \in 1 .. q - 1 : text[k] \notin {QUESTION_MARK, HASHTAG}
      /\ path \in Texts /\ Len(path) = q - 2 /\ \A k \in 1 .. q - 2 : path[k] = text[k + 1]
  BY InPathIs
<1>2. Len(text) \in Nat
  BY TextFacts
<1> HIDE DEF q, path
<1>3. s \in 1 .. Len(path) + 1
  BY DEF path
<1>4. /\ e \in s .. Len(path) + 1
      /\ e <= Len(path) => path[e] \in {SLASH}
      /\ \A k \in s .. e - 1 : path[k] \notin {SLASH}
  BY <1>1, <1>3, FoundBefore
<1> HIDE DEF e
<1>5. s + 1 \in 1 .. Len(text) + 1 /\ e + 1 \in s + 1 .. Len(text) + 1
  BY <1>1, <1>2, <1>3, <1>4
<1>6. e + 1 <= Len(text) => text[e + 1] \in Marks
  <2>1. CASE e <= Len(path)
    <3>1. e \in 1 .. q - 2
      BY <1>1, <1>3, <1>4, <2>1
    <3> QED
      BY <1>1, <1>4, <2>1, <3>1 DEF Marks
  <2>2. CASE ~(e <= Len(path))
    <3>1. e + 1 = q
      BY <1>1, <1>2, <1>3, <1>4, <2>2
    <3> QED
      BY <1>1, <3>1 DEF Marks
  <2> QED
    BY <2>1, <2>2
<1>7. \A k \in s + 1 .. (e + 1) - 1 : text[k] \notin Marks
  <2> TAKE k \in s + 1 .. (e + 1) - 1
  <2>1. k - 1 \in s .. e - 1 /\ k - 1 \in 1 .. q - 2 /\ k \in 1 .. q - 1 /\ (k - 1) + 1 = k
    BY <1>1, <1>2, <1>3, <1>4
  <2>2. path[k - 1] = text[k] /\ path[k - 1] # SLASH /\ text[k] \notin {QUESTION_MARK, HASHTAG}
    <3>1. path[k - 1] = text[(k - 1) + 1]
      BY <1>1, <2>1
    <3>2. path[k - 1] # SLASH
      BY <1>4, <2>1
    <3>3. text[k] \notin {QUESTION_MARK, HASHTAG}
      BY <1>1, <2>1
    <3> QED
      BY <2>1, <3>1, <3>2, <3>3
  <2> QED
    BY <2>2 DEF Marks
<1>8. Before(text, s + 1, Marks) = e + 1
  BY <1>5, <1>6, <1>7, BeforeIs
<1> QED
  BY <1>8 DEF e, path

(* From place d + 1 of the text on it runs like the other *)
RunsAlike(text, marks, part, other, d) ==
    /\ d + Len(part) <= Len(text) /\ \A k \in 1 .. Len(part) : text[k + d] = part[k]
    /\ \A s \in 1 .. Len(part) + 1 : Before(text, s + d, marks) = Before(part, s, other) + d

PiecesAlike(all, segs, i, d) ==
    \A n \in 1 .. Len(segs) :
      /\ i + n \in 1 .. Len(all) /\ StartOf(all, i + n) = StartOf(segs, n) + d
      /\ all[i + n].end = segs[n].end + d
      /\ all[i + n].text = segs[n].text

(* Pieces that begin alike and end alike are alike *)
LEMMA PiecesAlign ==
    ASSUME NEW text \in Texts, NEW marks, NEW part \in Texts, NEW other,
           NEW d \in Nat, NEW i \in Nat,
           RunsAlike(text, marks, part, other, d),
           i + 1 <= Len(Pieces(text, marks)), StartOf(Pieces(text, marks), i + 1) = d + 1
    PROVE  PiecesAlike(Pieces(text, marks), Pieces(part, other), i, d)
<1> DEFINE all == Pieces(text, marks)
           segs == Pieces(part, other)
           m == Len(segs)
<1>1. /\ Len(text) \in Nat /\ Len(part) \in Nat /\ d + Len(part) <= Len(text)
      /\ \A k \in 1 .. Len(part) : text[k + d] = part[k]
      /\ \A s \in 1 .. Len(part) + 1 : Before(text, s + d, marks) = Before(part, s, other) + d
  BY TextFacts DEF RunsAlike
<1>2. /\ Len(all) \in Nat \ {0} /\ all[Len(all)].end = Len(text) + 1
      /\ \A n \in 1 .. Len(all) :
           /\ StartOf(all, n) \in 1 .. Len(text) + 1
           /\ all[n].end = Before(text, StartOf(all, n), marks)
           /\ all[n].text = SubSeq(text, StartOf(all, n), all[n].end - 1)
           /\ all[n].end \in 1 .. Len(text) + 1
  BY PiecesAre
<1>3. /\ m \in Nat \ {0} /\ \A n \in 1 .. m - 1 : segs[n].end <= Len(part)
      /\ \A n \in 1 .. m :
           /\ StartOf(segs, n) \in 1 .. Len(part) + 1
           /\ segs[n].end = Before(part, StartOf(segs, n), other)
           /\ segs[n].text = SubSeq(part, StartOf(segs, n), segs[n].end - 1)
           /\ segs[n].end \in 1 .. Len(part) + 1
  BY PiecesAre
<1>4. i + 1 <= Len(all) /\ StartOf(all, i + 1) = d + 1
  OBVIOUS
<1> HIDE DEF all, segs, m
<1> DEFINE Q == {j \in 0 .. m - 1 : i + (j + 1) <= Len(all) /\ StartOf(all, i + (j + 1)) = StartOf(segs, j + 1) + d}
<1>5. 0 \in Q
  <2>1. 0 \in 0 .. m - 1 /\ i + (0 + 1) = i + 1 /\ 0 + 1 = 1
    BY <1>3
  <2>2. StartOf(segs, 0 + 1) = 1 /\ StartOf(all, i + (0 + 1)) = 1 + d
    BY <1>4, <2>1 DEF StartOf
  <2>3. i + (0 + 1) <= Len(all)
    BY <1>4, <2>1
  <2> QED
    BY <2>1, <2>2, <2>3
<1>6. ASSUME NEW n \in 1 .. m, n - 1 \in Q
      PROVE  /\ i + n \in 1 .. Len(all) /\ StartOf(all, i + n) = StartOf(segs, n) + d
             /\ all[i + n].end = segs[n].end + d
  <2>1. (n - 1) + 1 = n
    BY <1>3
  <2>2. i + n <= Len(all) /\ StartOf(all, i + n) = StartOf(segs, n) + d
    BY <1>6, <2>1
  <2>3. i + n \in 1 .. Len(all)
    BY <1>2, <1>3, <2>2
  <2>4. all[i + n].end = Before(text, StartOf(segs, n) + d, marks)
    BY <1>2, <2>2, <2>3
  <2>5. StartOf(segs, n) \in 1 .. Len(part) + 1 /\ segs[n].end = Before(part, StartOf(segs, n), other)
    BY <1>3
  <2>6. Before(text, StartOf(segs, n) + d, marks) = Before(part, StartOf(segs, n), other) + d
    BY <1>1, <2>5
  <2> QED
    BY <2>2, <2>3, <2>4, <2>5, <2>6
<1>7. ASSUME NEW n \in 1 .. m - 1, n - 1 \in Q PROVE n \in Q
  <2>1. n \in 1 .. m /\ n + 1 \in 1 .. m /\ n \in 0 .. m - 1
    BY <1>3
  <2>2. all[i + n].end = segs[n].end + d /\ i + n \in 1 .. Len(all)
    BY <1>6, <1>7, <2>1
  <2>3. segs[n].end <= Len(part) /\ segs[n].end \in 1 .. Len(part) + 1
    BY <1>3, <2>1
  <2>4. i + n # Len(all)
    <3>1. \A e \in Int : e <= Len(part) => e + d # Len(text) + 1
      BY <1>1
    <3>2. all[i + n].end # Len(text) + 1
      BY <2>2, <2>3, <3>1
    <3> QED
      BY <1>2, <3>2
  <2>5. i + (n + 1) <= Len(all)
    BY <1>2, <2>2, <2>4
  <2>6. StartOf(all, i + (n + 1)) = all[i + n].end + 1 /\ StartOf(segs, n + 1) = segs[n].end + 1
    <3>1. i + (n + 1) # 1 /\ (i + (n + 1)) - 1 = i + n /\ n + 1 # 1 /\ (n + 1) - 1 = n
      BY <2>1
    <3> QED
      BY <3>1 DEF StartOf
  <2>7. StartOf(all, i + (n + 1)) = StartOf(segs, n + 1) + d
    BY <2>2, <2>3, <2>6
  <2> QED
    BY <2>1, <2>5, <2>7
<1>8. \A n \in 1 .. m : n - 1 \in Q
  <2>1. m - 1 \in Nat /\ \A n \in 1 .. m : n - 1 \in 0 .. m - 1
    BY <1>3
  <2> HIDE DEF Q
  <2>2. \A k \in 0 .. m - 1 : k \in Q
    BY <1>5, <1>7, <2>1, UpToInduction
  <2> QED
    BY <2>1, <2>2
<1>9. ASSUME NEW n \in 1 .. m
      PROVE  /\ i + n \in 1 .. Len(all) /\ StartOf(all, i + n) = StartOf(segs, n) + d
             /\ all[i + n].end = segs[n].end + d
             /\ all[i + n].text = segs[n].text
  <2>1. /\ i + n \in 1 .. Len(all) /\ StartOf(all, i + n) = StartOf(segs, n) + d
        /\ all[i + n].end = segs[n].end + d
    BY <1>6, <1>8
  <2> DEFINE s == StartOf(segs, n)
             e == segs[n].end
  <2>2. s \in 1 .. Len(part) + 1 /\ e \in 1 .. Len(part) + 1 /\ segs[n].text = SubSeq(part, s, e - 1)
    BY <1>3
  <2>3. all[i + n].text = SubSeq(text, s + d, (e + d) - 1)
    <3>1. all[i + n].text = SubSeq(text, StartOf(all, i + n), all[i + n].end - 1)
      BY <1>2, <2>1
    <3>2. StartOf(all, i + n) = s + d /\ all[i + n].end - 1 = (e + d) - 1
      BY <2>1, Zenon
    <3> QED
      BY <3>1, <3>2
  <2> HIDE DEF s, e
  <2>4. /\ s \in Nat \ {0} /\ e - 1 \in Int /\ e - 1 <= Len(part) /\ s + d \in Nat \ {0}
        /\ (e + d) - 1 \in Int /\ (e + d) - 1 <= Len(text)
    BY <1>1, <2>2
  <2>5. /\ SubSeq(part, s, e - 1) \in Texts
        /\ Len(SubSeq(part, s, e - 1)) = IF s <= e - 1 THEN (e - 1) - s + 1 ELSE 0
        /\ \A k \in 1 .. (e - 1) - s + 1 : SubSeq(part, s, e - 1)[k] = part[s + k - 1]
    BY <2>4, Sub
  <2>6. /\ SubSeq(text, s + d, (e + d) - 1) \in Texts
        /\ Len(SubSeq(text, s + d, (e + d) - 1)) =
             IF s + d <= (e + d) - 1 THEN ((e + d) - 1) - (s + d) + 1 ELSE 0
        /\ \A k \in 1 .. ((e + d) - 1) - (s + d) + 1 :
             SubSeq(text, s + d, (e + d) - 1)[k] = text[(s + d) + k - 1]
    BY <2>4, Sub
  <2> DEFINE x == SubSeq(part, s, e - 1)
             y == SubSeq(text, s + d, (e + d) - 1)
  <2>7. Len(x) = Len(y)
    BY <2>2, <2>4, <2>5, <2>6
  <2>8. \A k \in 1 .. Len(x) : x[k] = y[k]
    <3> TAKE k \in 1 .. Len(x)
    <3>0. k \in 1 .. (e - 1) - s + 1
      BY <2>2, <2>4, <2>5
    <3>1. /\ k \in 1 .. (e - 1) - s + 1 /\ k \in 1 .. ((e + d) - 1) - (s + d) + 1
          /\ s + k - 1 \in 1 .. Len(part) /\ (s + k - 1) + d = (s + d) + k - 1
      <4> HIDE DEF x, y
      <4>1. k \in Nat /\ s \in Nat /\ e \in Nat /\ s >= 1 /\ k >= 1 /\ k <= e - s /\ e <= Len(part) + 1
        BY <1>1, <2>2, <3>0
      <4> QED
        BY <1>1, <4>1
    <3>2. x[k] = part[s + k - 1] /\ y[k] = text[(s + d) + k - 1]
      BY <2>5, <2>6, <3>1
    <3>3. part[s + k - 1] = text[(s + k - 1) + d]
      BY <1>1, <3>1
    <3> QED
      BY <3>1, <3>2, <3>3
  <2>9. x = y
    <3>1. x \in Seq(Token) /\ y \in Seq(Token)
      BY <2>5, <2>6 DEF Texts
    <3> HIDE DEF x, y
    <3> QED
      BY <2>7, <2>8, <3>1, SeqEqual
  <2> QED
    BY <2>1, <2>2, <2>3, <2>9 DEF s
<1> QED
  BY <1>9 DEF all, segs, m, PiecesAlike

(* The pieces of the text are those of its path, one place later *)
LEMMA PiecesInPath ==
    ASSUME NEW text \in Texts, text # <<>>, text[1] = SLASH
    PROVE  LET all == Pieces(text, Marks)
               segs == Pieces(InPath(text), {SLASH})
           IN  /\ Len(segs) \in Nat \ {0} /\ Len(segs) + 1 <= Len(all)
               /\ all[1].text = <<>> /\ all[1].end = 1
               /\ \A n \in 1 .. Len(segs) : /\ all[n + 1].end = segs[n].end + 1
                                            /\ all[n + 1].text = segs[n].text
<1> DEFINE all == Pieces(text, Marks)
           path == InPath(text)
           segs == Pieces(path, {SLASH})
           q == Stop(text)
<1>1. /\ q \in 2 .. Len(text) + 1 /\ path \in Texts /\ Len(path) = q - 2
      /\ \A k \in 1 .. q - 2 : path[k] = text[k + 1]
  BY InPathIs
<1>2. Len(text) \in Nat
  BY TextFacts
<1>3. /\ Len(all) \in Nat \ {0} /\ all[Len(all)].end = Len(text) + 1
      /\ all[1].end = Before(text, 1, Marks)
      /\ all[1].text = SubSeq(text, 1, all[1].end - 1)
  <2>1. /\ Len(all) \in Nat \ {0} /\ all[Len(all)].end = Len(text) + 1
        /\ \A n \in 1 .. Len(all) :
             /\ all[n].end = Before(text, StartOf(all, n), Marks)
             /\ all[n].text = SubSeq(text, StartOf(all, n), all[n].end - 1)
    BY PiecesAre
  <2> HIDE DEF all
  <2>2. 1 \in 1 .. Len(all) /\ StartOf(all, 1) = 1
    BY <2>1 DEF StartOf
  <2>3. all[1].end = Before(text, StartOf(all, 1), Marks) /\ all[1].text = SubSeq(text, StartOf(all, 1), all[1].end - 1)
    BY <2>1, <2>2
  <2> QED
    BY <2>1, <2>2, <2>3
<1>4. Len(segs) \in Nat \ {0}
  BY <1>1, PiecesAre
<1> HIDE DEF all, segs, q, path
<1>5. all[1].end = 1 /\ all[1].text = <<>>
  <2>1. text[1] \in Marks /\ 1 \in 1 .. Len(text) + 1 /\ \A k \in 1 .. 1 - 1 : text[k] \notin Marks
    BY <1>1, <1>2 DEF Marks
  <2>2. Before(text, 1, Marks) = 1
    BY <1>2, <2>1, BeforeIs
  <2>3. all[1].end = 1 /\ all[1].text = SubSeq(text, 1, 0)
    BY <1>3, <2>2
  <2> QED
    BY <2>3, SubSeqEmpty
<1>6. 1 + 1 <= Len(all) /\ StartOf(all, 1 + 1) = 1 + 1
  <2>1. Len(all) # 1 /\ Len(all) \in Nat /\ Len(all) # 0
    BY <1>1, <1>2, <1>3, <1>5
  <2>2. \A l \in Nat : l # 0 /\ l # 1 => 1 + 1 <= l
    OBVIOUS
  <2>3. StartOf(all, 1 + 1) = all[1].end + 1
    BY DEF StartOf
  <2> QED
    BY <1>5, <2>1, <2>2, <2>3
<1>7. 1 + Len(path) <= Len(text) /\ \A k \in 1 .. Len(path) : text[k + 1] = path[k]
  BY <1>1, <1>2
<1>8. \A s \in 1 .. Len(path) + 1 : Before(text, s + 1, Marks) = Before(path, s, {SLASH}) + 1
  BY MarksInPath DEF path
<1>9. \A n \in 1 .. Len(segs) : /\ 1 + n \in 1 .. Len(all)
                                /\ all[1 + n].end = segs[n].end + 1
                                /\ all[1 + n].text = segs[n].text
  <2>1. 1 \in Nat
    OBVIOUS
  <2>2. 1 + 1 <= Len(Pieces(text, Marks)) /\ StartOf(Pieces(text, Marks), 1 + 1) = 1 + 1
    BY <1>6 DEF all
  <2>3. path \in Texts
    BY <1>1
  <2> QED
    <3>1. RunsAlike(text, Marks, path, {SLASH}, 1)
      BY <1>7, <1>8, Zenon DEF RunsAlike
    <3>2. PiecesAlike(Pieces(text, Marks), Pieces(path, {SLASH}), 1, 1)
      BY <2>1, <2>2, <2>3, <3>1, PiecesAlign
    <3> QED
      BY <3>2 DEF all, segs, PiecesAlike
<1>10. Len(segs) \in 1 .. Len(segs) /\ \A n \in 1 .. Len(segs) : 1 + n = n + 1
  BY <1>4
<1>11. Len(segs) + 1 \in 1 .. Len(all) /\ \A n \in 1 .. Len(segs) : all[n + 1].end = segs[n].end + 1 /\ all[n + 1].text = segs[n].text
  BY <1>9, <1>10
<1>12. Len(segs) + 1 <= Len(all)
  BY <1>3, <1>11
<1> QED
  BY <1>4, <1>5, <1>11, <1>12, Zenon DEF all, segs, path

(* When the path does not end in "/" the components are its segments and an   *)
(* empty one before them                                                      *)
LEMMA ComponentsInPath ==
    ASSUME NEW text \in Texts, text # <<>>, text[1] = SLASH,
           Last(Pieces(InPath(text), {SLASH})).text # <<>>
    PROVE  LET comps == Components(text)
               segs == Pieces(InPath(text), {SLASH})
           IN  /\ Len(segs) \in Nat \ {0} /\ Len(comps) = Len(segs) + 1
               /\ comps[1].text = <<>>
               /\ \A n \in 1 .. Len(segs) : comps[n + 1].text = segs[n].text
               /\ Last(comps).end = Stop(text)
<1> DEFINE all == Pieces(text, Marks)
           comps == Components(text)
           path == InPath(text)
           segs == Pieces(path, {SLASH})
           m == Len(segs)
           q == Stop(text)
           last(n) == all[n].text # <<>> /\ all[n].end <= Len(text) /\ text[all[n].end] # SLASH
<1>1. /\ q \in 2 .. Len(text) + 1
      /\ q <= Len(text) => text[q] \in {QUESTION_MARK, HASHTAG}
      /\ path \in Texts /\ Len(path) = q - 2
      /\ \A k \in 1 .. q - 2 : path[k] = text[k + 1]
  BY InPathIs
<1>2. Len(text) \in Nat
  BY TextFacts
<1>3. /\ Len(comps) \in 1 .. Len(all) /\ Len(comps) \in Nat \ {0}
      /\ \A n \in 1 .. Len(comps) : comps[n] = all[n]
      /\ \A n \in 1 .. Len(comps) - 1 : ~last(n)
      /\ Len(comps) = Len(all) \/ last(Len(comps))
  BY ComponentsAre
<1>4. /\ m \in Nat \ {0} /\ m + 1 <= Len(all)
      /\ all[1].text = <<>> /\ all[1].end = 1
      /\ \A n \in 1 .. m : all[n + 1].end = segs[n].end + 1 /\ all[n + 1].text = segs[n].text
  BY PiecesInPath
<1>5. /\ segs[m].end = Len(path) + 1
      /\ \A n \in 1 .. m - 1 : segs[n].end <= Len(path)
      /\ \A n \in 1 .. m : /\ StartOf(segs, n) \in 1 .. Len(path) + 1
                           /\ segs[n].end = Before(path, StartOf(segs, n), {SLASH})
                           /\ segs[n].end \in 1 .. Len(path) + 1
  BY <1>1, PiecesAre DEF path
<1>6. /\ Len(all) \in Nat \ {0} /\ \A n \in 1 .. Len(all) - 1 : all[n].end <= Len(text)
      /\ all[Len(all)].end = Len(text) + 1
  BY PiecesAre
<1>7. segs[m].text # <<>>
  BY <1>4 DEF Last, path
<1> HIDE DEF all, comps, path, segs, m, q
<1>8. ASSUME NEW n \in 1 .. m PROVE ~last(n)
  <2>1. CASE n = 1
    BY <1>4, <2>1
  <2>2. CASE n # 1
    <3>1. n - 1 \in 1 .. m - 1 /\ n - 1 \in 1 .. m /\ (n - 1) + 1 = n
      BY <1>4, <2>2
    <3> DEFINE e == segs[n - 1].end
    <3>2. all[n].end = e + 1 /\ e <= Len(path) /\ e \in 1 .. Len(path) + 1
          /\ e = Before(path, StartOf(segs, n - 1), {SLASH}) /\ StartOf(segs, n - 1) \in 1 .. Len(path) + 1
      BY <1>4, <1>5, <3>1
    <3>3. path[e] = SLASH
      BY <1>1, <3>2, FoundBefore
    <3>4. e \in 1 .. q - 2
      BY <1>1, <3>2
    <3>5. text[e + 1] = SLASH
      BY <1>1, <3>3, <3>4
    <3> QED
      BY <3>2, <3>5
  <2> QED
    BY <2>1, <2>2
<1>9. m \in 1 .. m /\ m + 1 \in 1 .. Len(all) /\ all[m + 1].end = q /\ all[m + 1].text # <<>>
  <2>1. m \in 1 .. m /\ m + 1 \in 1 .. Len(all)
    BY <1>4, <1>6
  <2>2. all[m + 1].end = (Len(path) + 1) + 1 /\ all[m + 1].text = segs[m].text
    BY <1>4, <1>5, <2>1
  <2>3. (Len(path) + 1) + 1 = q
    BY <1>1
  <2> QED
    BY <1>7, <2>1, <2>2, <2>3
<1>10. last(m + 1) \/ m + 1 = Len(all)
  <2>1. CASE q <= Len(text)
    <3>1. text[q] # SLASH
      BY <1>1, <2>1 DEF SLASH, QUESTION_MARK, HASHTAG
    <3> QED
      BY <1>9, <2>1, <3>1
  <2>2. CASE ~(q <= Len(text))
    <3>1. ~(all[m + 1].end <= Len(text))
      BY <1>9, <2>2
    <3>2. m + 1 \notin 1 .. Len(all) - 1
      BY <1>6, <3>1
    <3> QED
      BY <1>4, <1>6, <3>2
  <2> QED
    BY <2>1, <2>2
<1>11. Len(comps) = m + 1
  <2> HIDE DEF last
  <2>1. ~(Len(comps) <= m)
    <3> SUFFICES ASSUME Len(comps) <= m PROVE FALSE
      OBVIOUS
    <3>1. Len(comps) \in 1 .. m
      BY <1>3, <1>4
    <3>2. ~last(Len(comps)) /\ Len(comps) # Len(all)
      BY <1>4, <1>6, <1>8, <3>1
    <3> QED
      BY <1>3, <3>2
  <2>2. ~(Len(comps) > m + 1)
    <3> SUFFICES ASSUME Len(comps) > m + 1 PROVE FALSE
      OBVIOUS
    <3>1. m + 1 \in 1 .. Len(comps) - 1
      BY <1>3, <1>4
    <3>2. ~last(m + 1) /\ m + 1 # Len(all)
      BY <1>3, <1>6, <3>1
    <3> QED
      BY <1>10, <3>2
  <2> QED
    BY <1>3, <1>4, <2>1, <2>2
<1>12. comps[1].text = <<>> /\ \A n \in 1 .. m : comps[n + 1].text = segs[n].text
  <2>1. 1 \in 1 .. Len(comps) /\ \A n \in 1 .. m : n + 1 \in 1 .. Len(comps)
    BY <1>4, <1>11
  <2>2. \A n \in 1 .. m : comps[n + 1] = all[n + 1]
    BY <1>3, <2>1
  <2> QED
    BY <1>3, <1>4, <2>1, <2>2
<1>13. Last(comps).end = q
  <2>1. Last(comps) = comps[m + 1] /\ m + 1 \in 1 .. Len(comps)
    BY <1>4, <1>11 DEF Last
  <2>2. comps[m + 1] = all[m + 1]
    BY <1>3, <2>1
  <2> QED
    BY <1>9, <2>1, <2>2
<1> QED
  BY <1>4, <1>11, <1>12, <1>13 DEF comps, segs, m, path, q

LEMMA JoinRuns ==
    ASSUME NEW a \in Texts, NEW b \in Texts
    PROVE  LET j == a \o <<SLASH>> \o b
           IN  /\ j \in Texts /\ Len(j) = (Len(a) + 1) + Len(b)
               /\ RunsAlike(j, {SLASH}, a, {SLASH}, 0) /\ RunsAlike(j, {SLASH}, b, {SLASH}, Len(a) + 1)
<1> DEFINE j == a \o <<SLASH>> \o b
           n == Len(a)
<1>1. n \in Nat /\ Len(b) \in Nat /\ SLASH \in Token
  BY TextFacts, MarkTypes
<1>2. /\ j \in Texts /\ Len(j) = (n + 1) + Len(b)
      /\ \A k \in 1 .. n : j[k] = a[k]
      /\ j[n + 1] = SLASH
      /\ \A k \in 1 .. Len(b) : j[k + (n + 1)] = b[k]
  <2> DEFINE x == a \o <<SLASH>>
  <2>1. /\ x \in Texts /\ Len(x) = n + 1 /\ x[n + 1] = SLASH
        /\ \A k \in 1 .. n : x[k] = a[k]
    BY <1>1 DEF Texts
  <2> HIDE DEF x, n
  <2>2. /\ x \o b \in Texts /\ Len(x \o b) = (n + 1) + Len(b)
        /\ \A k \in 1 .. n + 1 : (x \o b)[k] = x[k]
        /\ \A k \in 1 .. Len(b) : (x \o b)[k + (n + 1)] = b[k]
    BY <1>1, <2>1 DEF Texts
  <2>3. /\ \A k \in 1 .. n : (x \o b)[k] = a[k]
        /\ (x \o b)[n + 1] = SLASH
    BY <1>1, <2>1, <2>2
  <2>4. j = x \o b
    BY DEF x
  <2> QED
    BY <2>2, <2>3, <2>4
<1> HIDE DEF j, n
<1>3. ASSUME NEW s \in 1 .. n + 1
      PROVE  Before(j, s + 0, {SLASH}) = Before(a, s, {SLASH}) + 0
  <2> DEFINE e == Before(a, s, {SLASH})
  <2>1. /\ e \in s .. n + 1 /\ (e <= n => a[e] \in {SLASH}) /\ \A k \in s .. e - 1 : a[k] \notin {SLASH}
    BY FoundBefore DEF n
  <2> HIDE DEF e
  <2>2. s + 0 = s /\ s \in 1 .. Len(j) + 1 /\ e \in s .. Len(j) + 1 /\ e + 0 = e
    BY <1>1, <1>2, <2>1
  <2>3. j[e] \in {SLASH}
    <3>1. e \in 1 .. n \/ e = n + 1
      BY <1>1, <2>1
    <3> QED
      BY <1>2, <2>1, <3>1
  <2>4. \A k \in s .. e - 1 : j[k] \notin {SLASH}
    <3>1. \A k \in s .. e - 1 : k \in 1 .. n
      BY <1>1, <2>1
    <3> QED
      BY <1>2, <2>1, <3>1
  <2>5. Before(j, s, {SLASH}) = e
    BY <1>2, <2>2, <2>3, <2>4, BeforeIs
  <2> QED
    BY <2>2, <2>5 DEF e
<1>4. ASSUME NEW s \in 1 .. Len(b) + 1
      PROVE  Before(j, s + (n + 1), {SLASH}) = Before(b, s, {SLASH}) + (n + 1)
  <2> DEFINE e == Before(b, s, {SLASH})
             d == n + 1
  <2>1. /\ e \in s .. Len(b) + 1 /\ (e <= Len(b) => b[e] \in {SLASH}) /\ \A k \in s .. e - 1 : b[k] \notin {SLASH}
    BY FoundBefore
  <2>2. d \in Nat /\ Len(j) = d + Len(b) /\ \A k \in 1 .. Len(b) : j[k + d] = b[k]
    BY <1>1, <1>2
  <2> HIDE DEF e, d
  <2>3. s + d \in 1 .. Len(j) + 1 /\ e + d \in s + d .. Len(j) + 1
    BY <1>1, <2>1, <2>2
  <2>4. e + d <= Len(j) => j[e + d] \in {SLASH}
    <3>1. e + d <= Len(j) => e \in 1 .. Len(b) /\ e <= Len(b)
      BY <1>1, <2>1, <2>2
    <3> QED
      BY <2>1, <2>2, <3>1
  <2>5. \A k \in s + d .. (e + d) - 1 : j[k] \notin {SLASH}
    <3> TAKE k \in s + d .. (e + d) - 1
    <3>1. k - d \in s .. e - 1 /\ k - d \in 1 .. Len(b) /\ (k - d) + d = k
      BY <1>1, <2>1, <2>2
    <3> QED
      BY <2>1, <2>2, <3>1
  <2>6. Before(j, s + d, {SLASH}) = e + d
    BY <1>2, <2>3, <2>4, <2>5, BeforeIs
  <2> QED
    BY <2>6 DEF e, d
<1>5. RunsAlike(j, {SLASH}, a, {SLASH}, 0)
  <2>1. 0 + Len(a) <= Len(j) /\ \A k \in 1 .. Len(a) : j[k + 0] = a[k]
    <3>1. \A k \in 1 .. n : k + 0 = k
      BY <1>1
    <3> QED
      BY <1>1, <1>2, <3>1 DEF n
  <2> QED
    BY <1>3, <2>1 DEF RunsAlike, n
<1>6. RunsAlike(j, {SLASH}, b, {SLASH}, n + 1)
  <2>1. (n + 1) + Len(b) <= Len(j)
    BY <1>1, <1>2
  <2> QED
    BY <1>2, <1>4, <2>1, Zenon DEF RunsAlike
<1> QED
  BY <1>2, <1>5, <1>6 DEF j, n

(* Between two texts a "/" is put: the pieces are those of the one and those   *)
(* of the other                                                               *)
LEMMA PiecesJoin ==
    ASSUME NEW a \in Texts, NEW b \in Texts
    PROVE  LET all == Pieces(a \o <<SLASH>> \o b, {SLASH})
               old == Pieces(a, {SLASH})
               new == Pieces(b, {SLASH})
           IN  /\ Len(old) \in Nat \ {0} /\ Len(new) \in Nat \ {0} /\ Len(all) = Len(old) + Len(new)
               /\ \A n \in 1 .. Len(old) : all[n].text = old[n].text
               /\ \A n \in 1 .. Len(new) : all[Len(old) + n].text = new[n].text
<1> DEFINE j == a \o <<SLASH>> \o b
           all == Pieces(j, {SLASH})
           old == Pieces(a, {SLASH})
           new == Pieces(b, {SLASH})
           m == Len(old)
<1>1. Len(a) \in Nat /\ Len(b) \in Nat
  BY TextFacts
<1>2. /\ j \in Texts /\ Len(j) = (Len(a) + 1) + Len(b)
      /\ RunsAlike(j, {SLASH}, a, {SLASH}, 0) /\ RunsAlike(j, {SLASH}, b, {SLASH}, Len(a) + 1)
  BY JoinRuns
<1> HIDE DEF j
<1>3. /\ Len(all) \in Nat \ {0} /\ all[Len(all)].end = Len(j) + 1
      /\ \A n \in 1 .. Len(all) - 1 : all[n].end <= Len(j)
  BY <1>2, PiecesAre
<1>4. m \in Nat \ {0} /\ old[m].end = Len(a) + 1
  BY PiecesAre
<1>5. Len(new) \in Nat \ {0} /\ new[Len(new)].end = Len(b) + 1
  BY PiecesAre
<1>6. PiecesAlike(all, old, 0, 0)
  <2>1. 0 \in Nat /\ 0 + 1 <= Len(all) /\ StartOf(all, 0 + 1) = 0 + 1
    BY <1>3 DEF StartOf
  <2> QED
    BY <1>2, <2>1, PiecesAlign
<1> HIDE DEF all, old, new, m
<1>7. \A n \in 1 .. m : n \in 1 .. Len(all) /\ all[n].end = old[n].end + 0 /\ all[n].text = old[n].text
  <2>1. \A n \in 1 .. m : 0 + n = n
    BY <1>4
  <2> QED
    BY <1>6, <2>1 DEF PiecesAlike, m
<1>8. m \in 1 .. Len(all) /\ all[m].end = Len(a) + 1
  <2>1. m \in 1 .. m
    BY <1>4
  <2>2. all[m].end = old[m].end + 0 /\ m \in 1 .. Len(all)
    BY <1>7, <2>1
  <2> QED
    BY <1>1, <1>4, <2>2
<1>9. m + 1 <= Len(all) /\ StartOf(all, m + 1) = (Len(a) + 1) + 1
  <2>1. Len(all) # m
    BY <1>1, <1>2, <1>3, <1>8
  <2>2. m + 1 # 1 /\ (m + 1) - 1 = m
    BY <1>4
  <2> QED
    BY <1>3, <1>4, <1>8, <2>1, <2>2 DEF StartOf
<1>10. PiecesAlike(all, new, m, Len(a) + 1)
  <2>1. Len(a) + 1 \in Nat /\ m \in Nat
    BY <1>1, <1>4
  <2> QED
    BY <1>2, <1>9, <2>1, PiecesAlign DEF all, new
<1>11. \A n \in 1 .. Len(new) : /\ m + n \in 1 .. Len(all) /\ all[m + n].end = new[n].end + (Len(a) + 1)
                                /\ all[m + n].text = new[n].text
  BY <1>10 DEF PiecesAlike
<1>12. Len(all) = m + Len(new)
  <2>1. Len(new) \in 1 .. Len(new)
    BY <1>5
  <2> DEFINE k == m + Len(new)
  <2>2. k \in 1 .. Len(all) /\ all[k].end = (Len(b) + 1) + (Len(a) + 1)
    BY <1>5, <1>11, <2>1
  <2> HIDE DEF k
  <2>3. ~(all[k].end <= Len(j))
    BY <1>1, <1>2, <2>2
  <2>4. k \notin 1 .. Len(all) - 1
    BY <1>3, <2>3
  <2>5. k = Len(all)
    BY <1>3, <2>2, <2>4
  <2> QED
    BY <2>5 DEF k
<1> QED
  BY <1>4, <1>5, <1>7, <1>11, <1>12 DEF all, old, new, m, j

(* A Location without what follows its path *)
LocPath(loc) == SubSeq(loc, 1, Stop(loc) - 1)

LEMMA LocPathIs ==
    ASSUME NEW loc \in Texts, loc # <<>>
    PROVE  /\ Stop(loc) \in 1 .. Len(loc) + 1
           /\ Stop(loc) <= Len(loc) => loc[Stop(loc)] \in {QUESTION_MARK, HASHTAG}
           /\ \A k \in 1 .. Stop(loc) - 1 : loc[k] \notin {QUESTION_MARK, HASHTAG}
           /\ LocPath(loc) \in Texts /\ Len(LocPath(loc)) = Stop(loc) - 1
           /\ \A k \in 1 .. Stop(loc) - 1 : LocPath(loc)[k] = loc[k]
           /\ SubSeq(loc, Stop(loc), Len(loc)) \in Texts
<1>1. Len(loc) \in Nat \ {0} /\ 1 \in 1 .. Len(loc) + 1
  BY TextFacts
<1>2. /\ Stop(loc) \in 1 .. Len(loc) + 1
      /\ Stop(loc) <= Len(loc) => loc[Stop(loc)] \in {QUESTION_MARK, HASHTAG}
      /\ \A k \in 1 .. Stop(loc) - 1 : loc[k] \notin {QUESTION_MARK, HASHTAG}
  BY <1>1, FoundBefore DEF Stop
<1> DEFINE q == Stop(loc)
<1> HIDE DEF q
<1>3. q \in 1 .. Len(loc) + 1 /\ q - 1 \in Int /\ q - 1 <= Len(loc) /\ q \in Nat \ {0}
      /\ Len(loc) \in Int /\ Len(loc) <= Len(loc)
  BY <1>1, <1>2 DEF q
<1>4. /\ SubSeq(loc, 1, q - 1) \in Texts
      /\ Len(SubSeq(loc, 1, q - 1)) = IF 1 <= q - 1 THEN (q - 1) - 1 + 1 ELSE 0
      /\ \A k \in 1 .. (q - 1) - 1 + 1 : SubSeq(loc, 1, q - 1)[k] = loc[1 + k - 1]
      /\ SubSeq(loc, q, Len(loc)) \in Texts
  BY <1>3, Sub
<1>5. Len(SubSeq(loc, 1, q - 1)) = q - 1
  BY <1>3, <1>4
<1>6. ASSUME NEW k \in 1 .. q - 1 PROVE SubSeq(loc, 1, q - 1)[k] = loc[k]
  <2>1. k \in 1 .. (q - 1) - 1 + 1 /\ 1 + k - 1 = k
    BY <1>3
  <2> QED
    BY <1>4, <2>1
<1> QED
  BY <1>2, <1>4, <1>5, <1>6 DEF q, LocPath

LEMMA ConcatIs ==
    ASSUME NEW a \in Texts, NEW b \in Texts
    PROVE  /\ a \o b \in Texts /\ Len(a \o b) = Len(a) + Len(b)
           /\ \A k \in 1 .. Len(a) : (a \o b)[k] = a[k]
           /\ \A k \in 1 .. Len(b) : (a \o b)[k + Len(a)] = b[k]
BY TextFacts DEF Texts

(* Where the path ends that is made of a page's and a Location *)
LEMMA StopBehind ==
    ASSUME NEW x \in Texts, NEW loc \in Texts, loc # <<>>,
           \A k \in 1 .. Len(x) : x[k] \notin {QUESTION_MARK, HASHTAG}
    PROVE  LET text == <<SLASH>> \o x \o loc
           IN  /\ text \in Texts /\ text # <<>> /\ text[1] = SLASH
               /\ InPath(text) = x \o LocPath(loc)
               /\ SubSeq(text, Stop(text), Len(text)) = SubSeq(loc, Stop(loc), Len(loc))
<1> DEFINE text == <<SLASH>> \o x \o loc
           n == Len(x)
           d == n + 1
           q == Stop(loc)
           l == LocPath(loc)
<1>1. n \in Nat /\ d \in Nat /\ Len(loc) \in Nat \ {0} /\ SLASH \in Token
  BY TextFacts, MarkTypes
<1>2. /\ q \in 1 .. Len(loc) + 1
      /\ q <= Len(loc) => loc[q] \in {QUESTION_MARK, HASHTAG}
      /\ \A k \in 1 .. q - 1 : loc[k] \notin {QUESTION_MARK, HASHTAG}
      /\ l \in Texts /\ Len(l) = q - 1 /\ \A k \in 1 .. q - 1 : l[k] = loc[k]
      /\ SubSeq(loc, q, Len(loc)) \in Texts
  BY LocPathIs
<1>3. /\ text \in Texts /\ Len(text) = d + Len(loc) /\ text[1] = SLASH
      /\ \A k \in 1 .. n : text[k + 1] = x[k]
      /\ \A k \in 1 .. Len(loc) : text[k + d] = loc[k]
  <2> DEFINE y == <<SLASH>> \o x
  <2>1. /\ y \in Texts /\ Len(y) = d /\ y[1] = SLASH /\ \A k \in 1 .. n : y[k + 1] = x[k]
    BY <1>1 DEF Texts
  <2> HIDE DEF y, d, n
  <2>2. /\ y \o loc \in Texts /\ Len(y \o loc) = d + Len(loc)
        /\ \A k \in 1 .. d : (y \o loc)[k] = y[k]
        /\ \A k \in 1 .. Len(loc) : (y \o loc)[k + d] = loc[k]
    BY <1>1, <2>1 DEF Texts
  <2>3. (y \o loc)[1] = SLASH /\ \A k \in 1 .. n : (y \o loc)[k + 1] = x[k]
    BY <1>1, <2>1, <2>2 DEF d
  <2> QED
    BY <2>2, <2>3 DEF y
<1>4. text # <<>>
  BY <1>1, <1>3
<1> HIDE DEF text, q, l
<1>5. Stop(text) = q + d
  <2>1. 1 \in 1 .. Len(text) + 1 /\ q + d \in 1 .. Len(text) + 1
    BY <1>1, <1>2, <1>3
  <2>2. q + d <= Len(text) => text[q + d] \in {QUESTION_MARK, HASHTAG}
    <3>1. q + d <= Len(text) => q \in 1 .. Len(loc) /\ q <= Len(loc)
      BY <1>1, <1>2, <1>3
    <3> QED
      BY <1>2, <1>3, <3>1
  <2>3. \A k \in 1 .. (q + d) - 1 : text[k] \notin {QUESTION_MARK, HASHTAG}
    <3> TAKE k \in 1 .. (q + d) - 1
    <3>1. CASE k = 1
      BY <1>3, <3>1 DEF SLASH, QUESTION_MARK, HASHTAG
    <3>2. CASE k \in 2 .. d
      <4>1. k - 1 \in 1 .. n /\ (k - 1) + 1 = k
        BY <1>1, <3>2
      <4>2. text[k] = x[k - 1]
        BY <1>3, <4>1
      <4> QED
        BY <4>1, <4>2 DEF n
    <3>3. CASE k > d
      <4>1. k - d \in 1 .. q - 1 /\ k - d \in 1 .. Len(loc) /\ (k - d) + d = k
        BY <1>1, <1>2, <3>3
      <4>2. text[k] = loc[k - d]
        BY <1>3, <4>1
      <4> QED
        BY <1>2, <4>1, <4>2
    <3> QED
      BY <1>1, <1>2, <3>1, <3>2, <3>3
  <2> QED
    BY <1>3, <2>1, <2>2, <2>3, BeforeIs DEF Stop
<1>6. /\ InPath(text) \in Texts /\ Len(InPath(text)) = Stop(text) - 2
      /\ \A k \in 1 .. Stop(text) - 2 : InPath(text)[k] = text[k + 1]
  BY <1>3, <1>4, InPathIs
<1>7. InPath(text) = x \o l
  <2> DEFINE y == x \o l
             z == InPath(text)
  <2>1. /\ y \in Texts /\ Len(y) = n + (q - 1)
        /\ \A k \in 1 .. n : y[k] = x[k]
        /\ \A k \in 1 .. q - 1 : y[k + n] = l[k]
    <3>1. /\ y \in Texts /\ Len(y) = Len(x) + Len(l)
          /\ \A k \in 1 .. Len(x) : y[k] = x[k]
          /\ \A k \in 1 .. Len(l) : y[k + Len(x)] = l[k]
      BY <1>2, ConcatIs
    <3> HIDE DEF y
    <3> QED
      BY <1>2, <3>1
  <2>2. Stop(text) - 2 = n + (q - 1) /\ z \in Texts /\ Len(z) = n + (q - 1)
    BY <1>1, <1>2, <1>5, <1>6
  <2> HIDE DEF y, z, n, d
  <2>3. \A k \in 1 .. Len(z) : z[k] = y[k]
    <3> TAKE k \in 1 .. Len(z)
    <3>1. k \in 1 .. Stop(text) - 2 /\ z[k] = text[k + 1]
      BY <1>6, <2>2 DEF z
    <3>2. CASE k \in 1 .. n
      BY <1>3, <2>1, <3>1, <3>2
    <3>3. CASE k \notin 1 .. n
      <4>1. k - n \in 1 .. q - 1 /\ k - n \in 1 .. Len(loc) /\ (k - n) + d = k + 1 /\ (k - n) + n = k
        BY <1>1, <1>2, <2>2, <3>3 DEF d
      <4>2. text[k + 1] = loc[k - n] /\ y[k] = l[k - n] /\ l[k - n] = loc[k - n]
        BY <1>2, <1>3, <2>1, <4>1
      <4> QED
        BY <3>1, <4>2
    <3> QED
      BY <3>2, <3>3
  <2>4. z = y
    <3>1. z \in Seq(Token) /\ y \in Seq(Token) /\ Len(z) = Len(y)
      BY <2>1, <2>2 DEF Texts
    <3> QED
      BY <2>3, <3>1, SeqEqual
  <2> QED
    BY <2>4 DEF y, z
<1>8. SubSeq(text, Stop(text), Len(text)) = SubSeq(loc, q, Len(loc))
  <2> DEFINE y == SubSeq(text, q + d, Len(text))
             z == SubSeq(loc, q, Len(loc))
  <2> HIDE DEF d
  <2>1. q + d \in Nat \ {0} /\ Len(text) \in Int /\ Len(text) <= Len(text) /\ q \in Nat \ {0}
        /\ Len(loc) \in Int /\ Len(loc) <= Len(loc)
    BY <1>1, <1>2, <1>3
  <2>2. /\ y \in Texts /\ Len(y) = (IF q + d <= Len(text) THEN Len(text) - (q + d) + 1 ELSE 0)
        /\ \A k \in 1 .. Len(text) - (q + d) + 1 : y[k] = text[(q + d) + k - 1]
    BY <1>3, <2>1, Sub
  <2>3. /\ z \in Texts /\ Len(z) = (IF q <= Len(loc) THEN Len(loc) - q + 1 ELSE 0)
        /\ \A k \in 1 .. Len(loc) - q + 1 : z[k] = loc[q + k - 1]
    BY <2>1, Sub
  <2> HIDE DEF y, z
  <2>4. Len(y) = Len(z)
    BY <1>1, <1>2, <1>3, <2>2, <2>3
  <2>5. \A k \in 1 .. Len(y) : y[k] = z[k]
    <3> TAKE k \in 1 .. Len(y)
    <3>1. k \in 1 .. Len(text) - (q + d) + 1
      BY <1>1, <1>2, <1>3, <2>2
    <3>2. /\ k \in 1 .. Len(loc) - q + 1 /\ q + k - 1 \in 1 .. Len(loc)
          /\ (q + k - 1) + d = (q + d) + k - 1
      BY <1>1, <1>2, <1>3, <3>1
    <3>3. y[k] = text[(q + d) + k - 1] /\ z[k] = loc[q + k - 1]
      BY <2>2, <2>3, <3>1, <3>2
    <3>4. text[(q + k - 1) + d] = loc[q + k - 1]
      BY <1>3, <3>2
    <3> QED
      BY <3>2, <3>3, <3>4
  <2>6. y = z
    <3>1. y \in Seq(Token) /\ z \in Seq(Token)
      BY <2>2, <2>3 DEF Texts
    <3> QED
      BY <2>4, <2>5, <3>1, SeqEqual
  <2> QED
    BY <1>5, <2>6 DEF y, z
<1> QED
  BY <1>3, <1>4, <1>7, <1>8 DEF text, q, l

LEMMA SegmentsAre ==
    ASSUME NEW path \in Texts
    PROVE  /\ Segments(path) \in Seq(Texts) /\ Len(Segments(path)) = Len(Pieces(path, {SLASH}))
           /\ DOMAIN Segments(path) = 1 .. Len(Segments(path)) /\ Len(Segments(path)) \in Nat \ {0}
           /\ \A n \in 1 .. Len(Segments(path)) : Segments(path)[n] = Pieces(path, {SLASH})[n].text
<1> DEFINE p == Pieces(path, {SLASH})
           s == Segments(path)
<1>1. /\ Len(p) \in Nat \ {0} /\ DOMAIN p = 1 .. Len(p) /\ \A n \in 1 .. Len(p) : p[n].text \in Texts
  BY PiecesAre
<1>2. s = [n \in DOMAIN p |-> p[n].text]
  BY DEF Segments
<1> HIDE DEF p, s
<1>3. s \in [1 .. Len(p) -> Texts] /\ \A n \in 1 .. Len(p) : s[n] = p[n].text
  BY <1>1, <1>2
<1>4. s \in Seq(Texts) /\ Len(s) = Len(p) /\ DOMAIN s = 1 .. Len(s)
  BY <1>1, <1>3
<1> QED
  BY <1>1, <1>3, <1>4 DEF p, s

(* What a Location is that is not of Strays *)
LEMMA NotStray ==
    ASSUME NEW parsed, NEW loc, ~IsAbsolute(loc), ~Strays(parsed, loc)
    PROVE  LET segments == MergedPath(parsed, loc)
           IN  /\ ~HasScheme(loc)
               /\ loc[1] = SLASH => ~ThirdIsSlash(loc)
               /\ loc[1] # SLASH => parsed.path = Null \/ Last(parsed.path) = SLASH
               /\ <<>> \notin ToSet(segments)
               /\ loc[1] # SLASH => HASHTAG \notin ToSet(Text(parsed.path))
               /\ \A n \in DOMAIN segments : IsDots(segments[n]) => \A m \in 1 .. n - 1 : IsDots(segments[m])
<1>1. ~HasScheme(loc)
  <2>1. HasScheme(loc) = IsAbsolute(loc)
    BY Zenon DEF Strays
  <2> QED
    BY <2>1
<1> QED
  BY <1>1, Zenon DEF Strays

(* The components are the segments, with an empty one before them and maybe    *)
(* another one behind the page's                                              *)
Shifted(comps, segments, b, d) ==
    /\ Len(comps) = Len(segments) + 1 + d
    /\ comps[1].text = <<>> /\ (d = 1 => comps[b + 2].text = <<>>)
    /\ \A n \in 1 .. b : comps[n + 1].text = segments[n]
    /\ \A n \in b + 1 .. Len(segments) : comps[n + 1 + d].text = segments[n]

LEMMA NoneEmpty ==
    ASSUME NEW segments \in Seq(Texts), <<>> \notin ToSet(segments)
    PROVE  \A n \in 1 .. Len(segments) : segments[n] # <<>>
BY DEF ToSet

LEMMA MergedAtRoot ==
    ASSUME NEW parsed \in UriType, NEW loc \in Texts, loc # <<>>, loc[1] = SLASH,
           <<>> \notin ToSet(MergedPath(parsed, loc))
    PROVE  /\ MergedPath(parsed, loc) = Segments(InPath(loc))
           /\ Shifted(Components(loc), MergedPath(parsed, loc), 0, 0)
           /\ MergedPath(parsed, loc) \in Seq(Texts) /\ Len(loc) > 1
           /\ Last(Components(loc)).end = Stop(loc)
<1> DEFINE segs == Pieces(InPath(loc), {SLASH})
           s == Segments(InPath(loc))
           q == Stop(loc)
           l == LocPath(loc)
<1>1. /\ q \in 2 .. Len(loc) + 1 /\ InPath(loc) \in Texts /\ Len(InPath(loc)) = q - 2
      /\ \A k \in 1 .. q - 2 : InPath(loc)[k] = loc[k + 1]
  BY InPathIs
<1>2. /\ l \in Texts /\ Len(l) = q - 1 /\ \A k \in 1 .. q - 1 : l[k] = loc[k]
  BY LocPathIs
<1>3. Len(loc) \in Nat
  BY TextFacts
<1> HIDE DEF q, l
<1>4. SubSeq(l, 2, Len(l)) = InPath(loc)
  <2> DEFINE x == SubSeq(l, 2, Len(l))
             y == InPath(loc)
  <2>1. 2 \in Nat \ {0} /\ Len(l) \in Int /\ Len(l) <= Len(l)
    BY <1>1, <1>2, <1>3
  <2>2. /\ x \in Texts /\ Len(x) = (IF 2 <= Len(l) THEN Len(l) - 2 + 1 ELSE 0)
        /\ \A k \in 1 .. Len(l) - 2 + 1 : x[k] = l[2 + k - 1]
    BY <1>2, <2>1, Sub
  <2> HIDE DEF x, y
  <2>3. Len(x) = q - 2 /\ Len(y) = q - 2 /\ y \in Texts /\ \A k \in 1 .. q - 2 : y[k] = loc[k + 1]
    BY <1>1, <1>2, <1>3, <2>2 DEF y
  <2>4. \A k \in 1 .. Len(x) : x[k] = y[k]
    <3> TAKE k \in 1 .. Len(x)
    <3>1. k \in 1 .. q - 2 /\ k \in 1 .. Len(l) - 2 + 1 /\ 2 + k - 1 = k + 1 /\ k + 1 \in 1 .. q - 1
      BY <1>1, <1>2, <1>3, <2>3
    <3>2. x[k] = l[k + 1] /\ l[k + 1] = loc[k + 1] /\ y[k] = loc[k + 1]
      BY <1>2, <2>2, <2>3, <3>1
    <3> QED
      BY <3>2
  <2>5. x = y
    <3>1. x \in Seq(Token) /\ y \in Seq(Token) /\ Len(x) = Len(y)
      BY <2>2, <2>3 DEF Texts
    <3> QED
      BY <2>4, <3>1, SeqEqual
  <2> QED
    BY <2>5 DEF x, y
<1>5. MergedPath(parsed, loc) = s
  <2>1. l = SubSeq(loc, 1, Before(loc, 1, {QUESTION_MARK, HASHTAG}) - 1)
    BY DEF l, LocPath, Stop
  <2>2. MergedPath(parsed, loc) = Segments(SubSeq(l, 2, Len(l)))
    BY <2>1 DEF MergedPath, BeforeSuffix
  <2> QED
    BY <1>4, <2>2
<1>6. /\ s \in Seq(Texts) /\ Len(s) = Len(segs) /\ Len(s) \in Nat \ {0}
      /\ \A n \in 1 .. Len(s) : s[n] = segs[n].text
  BY <1>1, SegmentsAre
<1>7. \A n \in 1 .. Len(s) : s[n] # <<>>
  BY <1>5, <1>6, NoneEmpty
<1>8. Last(segs).text # <<>>
  <2>1. Len(s) \in 1 .. Len(s) /\ Last(segs) = segs[Len(s)]
    BY <1>6 DEF Last
  <2> QED
    BY <1>6, <1>7, <2>1
<1>9. /\ Len(Components(loc)) = Len(segs) + 1
      /\ Components(loc)[1].text = <<>>
      /\ \A n \in 1 .. Len(segs) : Components(loc)[n + 1].text = segs[n].text
      /\ Last(Components(loc)).end = q
  BY <1>8, ComponentsInPath DEF q
<1>10. Len(loc) > 1
  <2> SUFFICES ASSUME ~(Len(loc) > 1) PROVE FALSE
    OBVIOUS
  <2>1. Len(InPath(loc)) = 0
    BY <1>1, <1>3
  <2>2. 1 \in 1 .. Len(s) /\ 1 \in 1 .. Len(segs)
    BY <1>6
  <2>3. segs[1].text = SubSeq(InPath(loc), StartOf(segs, 1), segs[1].end - 1) /\ segs[1].end \in 1 .. Len(InPath(loc)) + 1
    BY <1>1, <2>2, PiecesAre
  <2>4. segs[1].end - 1 = 0 /\ StartOf(segs, 1) = 1
    BY <2>1, <2>3 DEF StartOf
  <2>5. segs[1].text = <<>>
    BY <2>3, <2>4, SubSeqEmpty
  <2> QED
    BY <1>6, <1>7, <2>2, <2>5
<1> HIDE DEF segs, s
<1>11. Shifted(Components(loc), s, 0, 0)
  <2>1. Len(Components(loc)) = Len(s) + 1 + 0
    BY <1>6, <1>9
  <2>2. ASSUME NEW n \in 0 + 1 .. Len(s) PROVE Components(loc)[n + 1 + 0].text = s[n]
    <3>1. n \in 1 .. Len(s) /\ n \in 1 .. Len(segs) /\ n + 1 + 0 = n + 1
      BY <1>6
    <3> QED
      BY <1>6, <1>9, <3>1
  <2>3. \A n \in 1 .. 0 : Components(loc)[n + 1].text = s[n]
    OBVIOUS
  <2> QED
    BY <1>9, <2>1, <2>2, <2>3 DEF Shifted
<1> QED
  BY <1>5, <1>6, <1>9, <1>10, <1>11 DEF s, q

LEMMA EmptyLast ==
    ASSUME NEW path \in Texts, path # <<>>, Last(path) = SLASH
    PROVE  Last(Pieces(path, {SLASH})).text = <<>>
<1> DEFINE p == Pieces(path, {SLASH})
           m == Len(p)
           s == StartOf(p, m)
<1>1. Len(path) \in Nat \ {0} /\ path[Len(path)] = SLASH
  BY TextFacts DEF Last
<1>2. /\ m \in Nat \ {0} /\ p[m].end = Len(path) + 1
      /\ s \in 1 .. Len(path) + 1 /\ p[m].end = Before(path, s, {SLASH})
      /\ p[m].text = SubSeq(path, s, p[m].end - 1)
  <2>1. /\ m \in Nat \ {0} /\ p[m].end = Len(path) + 1
        /\ \A n \in 1 .. m : /\ StartOf(p, n) \in 1 .. Len(path) + 1
                             /\ p[n].end = Before(path, StartOf(p, n), {SLASH})
                             /\ p[n].text = SubSeq(path, StartOf(p, n), p[n].end - 1)
    BY PiecesAre
  <2>2. m \in 1 .. m
    BY <2>1
  <2> QED
    BY <2>1, <2>2
<1> HIDE DEF p, m, s
<1>3. \A k \in s .. Len(path) : path[k] # SLASH
  <2>1. \A k \in s .. Before(path, s, {SLASH}) - 1 : path[k] \notin {SLASH}
    BY <1>2, FoundBefore
  <2>2. Before(path, s, {SLASH}) - 1 = Len(path)
    BY <1>1, <1>2
  <2> QED
    BY <2>1, <2>2
<1>4. s = Len(path) + 1
  <2>1. Len(path) \notin s .. Len(path)
    BY <1>1, <1>3
  <2> QED
    BY <1>1, <1>2, <2>1
<1>5. p[m].text = SubSeq(path, Len(path) + 1, Len(path))
  BY <1>1, <1>2, <1>4
<1>6. p[m].text = <<>>
  BY <1>1, <1>5, SubSeqEmpty
<1> QED
  BY <1>6 DEF p, m, Last

LEMMA MergedAtPage ==
    ASSUME NEW parsed \in UriType, NEW loc \in Texts, loc # <<>>, loc[1] # SLASH,
           IsParsed(parsed), ~IsAbsolute(loc), ~Strays(parsed, loc)
    PROVE  LET path == FullPath(parsed, loc)
               segments == MergedPath(parsed, loc)
           IN  /\ path \in Texts /\ segments \in Seq(Texts)
               /\ \E d \in {0, 1} : \E b \in 0 .. Len(segments) : Shifted(Components(path), segments, b, d)
               /\ SubSeq(path, Last(Components(path)).end, Len(path)) = SubSeq(loc, Stop(loc), Len(loc))
<1> DEFINE l == LocPath(loc)
           new == Pieces(l, {SLASH})
           added == Segments(l)
           x == IF parsed.path = Null THEN <<>> ELSE parsed.path \o <<SLASH>>
           path == <<SLASH>> \o x \o loc
           segs == Pieces(InPath(path), {SLASH})
           base == Segments(Text(parsed.path))
           segments == SubSeq(base, 1, Len(base) - 1) \o added
           comps == Components(path)
<1>1. FullPath(parsed, loc) = path
  BY DEF FullPath
<1>2. MergedPath(parsed, loc) = segments
  BY DEF MergedPath, BeforeSuffix, LocPath, Stop
<1>3. l \in Texts /\ Len(loc) \in Nat
  BY LocPathIs, TextFacts
<1>4. Text(parsed.path) \in Texts
  <2>1. parsed.path \in PartType
    BY DEF UriType
  <2> QED
    BY <2>1, PartText
<1>5. /\ QUESTION_MARK \notin ToSet(Text(parsed.path)) /\ HASHTAG \notin ToSet(Text(parsed.path))
      /\ parsed.path = Null \/ Last(parsed.path) = SLASH
      /\ <<>> \notin ToSet(segments)
  BY <1>2, NotStray DEF IsParsed
<1>6. x \in Texts /\ \A k \in 1 .. Len(x) : x[k] \notin {QUESTION_MARK, HASHTAG}
  <2>1. CASE parsed.path = Null
    <3>1. x = <<>>
      BY <2>1
    <3> HIDE DEF x
    <3> QED
      BY <3>1 DEF Texts
  <2>2. CASE parsed.path # Null
    <3> DEFINE p == parsed.path
    <3>1. /\ p \in Texts /\ x = p \o <<SLASH>> /\ SLASH \in Token /\ <<SLASH>> \in Texts
          /\ QUESTION_MARK \notin ToSet(p) /\ HASHTAG \notin ToSet(p)
      BY <1>4, <1>5, <2>2, MarkTypes, LengthOne DEF Text
    <3>2. Len(p) \in Nat /\ \A k \in 1 .. Len(p) : p[k] \notin {QUESTION_MARK, HASHTAG}
      BY <3>1, TextFacts DEF ToSet
    <3> HIDE DEF x, p
    <3>3. /\ x \in Texts /\ Len(x) = Len(p) + 1 /\ (\A k \in 1 .. Len(p) : x[k] = p[k])
          /\ x[Len(p) + 1] = SLASH
      BY <3>1, <3>2 DEF Texts
    <3>4. SLASH \notin {QUESTION_MARK, HASHTAG}
      BY DEF SLASH, QUESTION_MARK, HASHTAG
    <3> QED
      BY <3>2, <3>3, <3>4
  <2> QED
    BY <2>1, <2>2
<1>7. /\ path \in Texts /\ path # <<>> /\ path[1] = SLASH /\ InPath(path) = x \o l
      /\ SubSeq(path, Stop(path), Len(path)) = SubSeq(loc, Stop(loc), Len(loc))
  <2> HIDE DEF x
  <2> QED
    BY <1>6, StopBehind DEF l
<1>8. /\ added \in Seq(Texts) /\ Len(added) = Len(new) /\ Len(added) \in Nat \ {0}
      /\ \A n \in 1 .. Len(added) : added[n] = new[n].text
  BY <1>3, SegmentsAre
<1>9. /\ base \in Seq(Texts) /\ Len(base) = Len(Pieces(Text(parsed.path), {SLASH})) /\ Len(base) \in Nat \ {0}
      /\ \A n \in 1 .. Len(base) : base[n] = Pieces(Text(parsed.path), {SLASH})[n].text
  BY <1>4, SegmentsAre
<1> HIDE DEF l, added, x, base, path, new
<1> DEFINE b == Len(base) - 1
<1>10. /\ segments \in Seq(Texts) /\ Len(segments) = b + Len(added) /\ b \in Nat
       /\ \A n \in 1 .. b : segments[n] = base[n]
       /\ \A n \in 1 .. Len(added) : segments[n + b] = added[n]
  <2>1. b \in Nat /\ b <= Len(base)
    BY <1>9
  <2> DEFINE y == SubSeq(base, 1, b)
  <2> HIDE DEF b
  <2>2. y \in Seq(Texts) /\ Len(y) = b /\ \A n \in 1 .. b : y[n] = base[n]
    BY <1>9, <2>1
  <2> HIDE DEF y
  <2>3. /\ y \o added \in Seq(Texts) /\ Len(y \o added) = b + Len(added)
        /\ \A n \in 1 .. b : (y \o added)[n] = y[n]
        /\ \A n \in 1 .. Len(added) : (y \o added)[n + b] = added[n]
    BY <1>8, <2>1, <2>2
  <2>4. segments = y \o added
    BY DEF y, b
  <2> HIDE DEF segments
  <2> QED
    BY <2>1, <2>2, <2>3, <2>4
<1>11. new[Len(new)].text # <<>>
  <2> HIDE DEF segments, b
  <2>1. Len(added) \in 1 .. Len(added) /\ Len(added) + b \in 1 .. Len(segments)
    BY <1>8, <1>10
  <2>2. segments[Len(added) + b] # <<>>
    BY <1>5, <1>10, <2>1, NoneEmpty
  <2>3. segments[Len(added) + b] = added[Len(added)]
    BY <1>10, <2>1
  <2>4. added[Len(added)] = new[Len(new)].text
    BY <1>8, <2>1
  <2> QED
    BY <2>2, <2>3, <2>4
<1>12. CASE parsed.path = Null
  <2>1. Len(base) = 1
    <3>1. Text(parsed.path) = <<>>
      BY <1>12 DEF Text
    <3>2. Len(Pieces(<<>>, {SLASH})) = 1
      <4> DEFINE none == Pieces(<<>>, {SLASH})
      <4>1. <<>> \in Texts /\ Len(<<>>) = 0
        BY DEF Texts
      <4>2. /\ Len(none) \in Nat \ {0} /\ \A n \in 1 .. Len(none) - 1 : none[n].end <= Len(<<>>)
            /\ \A n \in 1 .. Len(none) : none[n].end \in 1 .. Len(<<>>) + 1
        BY <4>1, PiecesAre
      <4> HIDE DEF none
      <4>3. ASSUME Len(none) # 1 PROVE FALSE
        <5>1. \A k \in Nat \ {0} : k # 1 => 1 \in 1 .. k - 1 /\ 1 \in 1 .. k
          OBVIOUS
        <5>2. 1 \in 1 .. Len(none) - 1 /\ 1 \in 1 .. Len(none)
          BY <4>2, <4>3, <5>1
        <5>3. none[1].end <= 0 /\ none[1].end \in 1 .. 1
          BY <4>1, <4>2, <5>2
        <5> QED
          BY <5>3
      <4> QED
        BY <4>3 DEF none
    <3> QED
      BY <1>9, <3>1, <3>2
  <2>2. InPath(path) = l
    <3>1. x = <<>>
      BY <1>12 DEF x
    <3>2. <<>> \o l = l
      BY <1>3 DEF Texts
    <3> QED
      BY <1>7, <3>1, <3>2
  <2>3. segs = new
    BY <2>2 DEF new
  <2>4. Last(segs).text # <<>>
    BY <1>11, <2>3 DEF Last
  <2>5. /\ Len(comps) = Len(segs) + 1 /\ comps[1].text = <<>> /\ Last(comps).end = Stop(path)
        /\ \A n \in 1 .. Len(segs) : comps[n + 1].text = segs[n].text
    BY <1>7, <2>4, ComponentsInPath
  <2>6. b = 0
    BY <2>1
  <2> HIDE DEF comps, segs, segments, b
  <2>7. /\ Len(segments) = Len(added) /\ \A n \in 1 .. Len(added) : segments[n] = added[n]
    <3>1. \A n \in 1 .. Len(added) : n + b = n
      BY <1>8, <2>6
    <3> QED
      BY <1>8, <1>10, <2>6, <3>1
  <2>8. Shifted(comps, segments, 0, 0)
    <3>1. Len(comps) = Len(segments) + 1 + 0
      BY <1>8, <2>3, <2>5, <2>7
    <3>2. ASSUME NEW n \in 0 + 1 .. Len(segments) PROVE comps[n + 1 + 0].text = segments[n]
      <4>1. n \in 1 .. Len(added) /\ n \in 1 .. Len(segs) /\ n + 1 + 0 = n + 1
        BY <1>8, <2>3, <2>7
      <4> QED
        BY <1>8, <2>3, <2>5, <2>7, <4>1
    <3>3. \A n \in 1 .. 0 : comps[n + 1].text = segments[n]
      OBVIOUS
    <3> QED
      BY <2>5, <3>1, <3>2, <3>3 DEF Shifted
  <2>9. 0 \in 0 .. Len(segments)
    BY <1>8, <2>7
  <2>10. SubSeq(path, Last(comps).end, Len(path)) = SubSeq(loc, Stop(loc), Len(loc))
    BY <1>7, <2>5
  <2> QED
    BY <1>1, <1>2, <1>7, <1>10, <2>8, <2>9, <2>10 DEF comps
<1>13. CASE parsed.path # Null
  <2> DEFINE p == parsed.path
             old == Pieces(p, {SLASH})
  <2>1. p \in Texts /\ p # <<>> /\ Last(p) = SLASH /\ Text(p) = p
    BY <1>5, <1>13 DEF Text, UriType, PartType
  <2>2. InPath(path) = p \o <<SLASH>> \o l
    BY <1>7, <1>13 DEF x
  <2>3. /\ Len(old) \in Nat \ {0} /\ Len(new) \in Nat \ {0} /\ Len(segs) = Len(old) + Len(new)
        /\ \A n \in 1 .. Len(old) : segs[n].text = old[n].text
        /\ \A n \in 1 .. Len(new) : segs[Len(old) + n].text = new[n].text
    <3> HIDE DEF p
    <3> DEFINE all == Pieces(p \o <<SLASH>> \o l, {SLASH})
    <3>1. /\ Len(old) \in Nat \ {0} /\ Len(Pieces(l, {SLASH})) \in Nat \ {0}
          /\ Len(all) = Len(old) + Len(Pieces(l, {SLASH}))
          /\ \A n \in 1 .. Len(old) : all[n].text = old[n].text
          /\ \A n \in 1 .. Len(Pieces(l, {SLASH})) : all[Len(old) + n].text = Pieces(l, {SLASH})[n].text
      BY <1>3, <2>1, PiecesJoin
    <3>2. segs = all /\ new = Pieces(l, {SLASH})
      BY <2>2 DEF new
    <3> HIDE DEF all, old, segs
    <3> QED
      BY <3>1, <3>2
  <2>4. old[Len(old)].text = <<>>
    BY <2>1, EmptyLast DEF Last
  <2>5. Len(base) = Len(old) /\ \A n \in 1 .. Len(old) : base[n] = old[n].text
    BY <1>9, <2>1
  <2>6. Last(segs).text # <<>>
    <3> HIDE DEF segs, old
    <3>1. Len(new) \in 1 .. Len(new)
      BY <2>3
    <3>2. Last(segs) = segs[Len(old) + Len(new)]
      BY <2>3 DEF Last
    <3> QED
      BY <1>11, <2>3, <3>1, <3>2
  <2>7. /\ Len(comps) = Len(segs) + 1 /\ comps[1].text = <<>> /\ Last(comps).end = Stop(path)
        /\ \A n \in 1 .. Len(segs) : comps[n + 1].text = segs[n].text
    BY <1>7, <2>6, ComponentsInPath
  <2> HIDE DEF comps, segs, segments, old
  <2>8. Len(old) = b + 1 /\ b \in Nat
    BY <1>10, <2>3, <2>5
  <2> HIDE DEF b
  <2>9. Shifted(comps, segments, b, 1)
    <3>1. Len(comps) = Len(segments) + 1 + 1
      BY <1>8, <1>10, <2>3, <2>7, <2>8
    <3>2. comps[b + 2].text = <<>>
      <4>1. b + 1 \in 1 .. Len(segs) /\ (b + 1) + 1 = b + 2 /\ b + 1 \in 1 .. Len(old)
        BY <2>3, <2>8
      <4> QED
        BY <2>3, <2>4, <2>7, <2>8, <4>1
    <3>3. ASSUME NEW n \in 1 .. b PROVE comps[n + 1].text = segments[n]
      <4>1. n \in 1 .. Len(segs) /\ n \in 1 .. Len(old)
        BY <2>3, <2>8
      <4> QED
        BY <1>10, <2>3, <2>5, <2>7, <4>1
    <3>4. ASSUME NEW n \in b + 1 .. Len(segments) PROVE comps[n + 1 + 1].text = segments[n]
      <4> DEFINE k == n - b
      <4>1. /\ k \in 1 .. Len(added) /\ k \in 1 .. Len(new) /\ k + b = n
            /\ Len(old) + k = n + 1 /\ n + 1 \in 1 .. Len(segs) /\ (n + 1) + 1 = n + 1 + 1
        BY <1>8, <1>10, <2>3, <2>8
      <4> HIDE DEF k
      <4>2. segments[n] = added[k] /\ added[k] = new[k].text
        BY <1>8, <1>10, <4>1
      <4>3. segs[n + 1].text = new[k].text /\ comps[(n + 1) + 1].text = segs[n + 1].text
        BY <2>3, <2>7, <4>1
      <4> QED
        BY <4>1, <4>2, <4>3
    <3> QED
      BY <2>7, <3>1, <3>2, <3>3, <3>4 DEF Shifted
  <2>10. b \in 0 .. Len(segments)
    BY <1>8, <1>10, <2>8
  <2>11. SubSeq(path, Last(comps).end, Len(path)) = SubSeq(loc, Stop(loc), Len(loc))
    BY <1>7, <2>7
  <2> QED
    BY <1>1, <1>2, <1>7, <1>10, <2>9, <2>10, <2>11 DEF comps
<1> QED
  BY <1>12, <1>13

-------------------------------------------------------------------------------
(* Without a dot segment after another one the path is the one of the RFC *)

(* The segments that are left, each behind a "/" *)
Flat(segments) == FoldLeft(LAMBDA text, s : text \o <<SLASH>> \o s, <<>>, segments)

SlashType == /\ <<SLASH>> \in Texts /\ <<>> \in Texts
             /\ \A text, s \in Texts : text \o <<SLASH>> \o s \in Texts

LEMMA SlashTypes == SlashType
<1>1. <<SLASH>> \in Texts /\ <<>> \in Texts
  BY MarkTypes, LengthOne DEF Texts
<1>2. ASSUME NEW text \in Texts, NEW s \in Texts PROVE text \o <<SLASH>> \o s \in Texts
  <2>1. text \o <<SLASH>> \in Texts
    BY <1>1, ConcatIs
  <2> QED
    BY <2>1, ConcatIs
<1> QED
  BY <1>1, <1>2 DEF SlashType


LEMMA FlatFold ==
    ASSUME NEW segments \in Seq(Texts)
    PROVE  \E part \in [0 .. Len(segments) -> Texts] :
             /\ part[0] = <<>> /\ part[Len(segments)] = Flat(segments)
             /\ \A k \in 1 .. Len(segments) : part[k] = part[k - 1] \o <<SLASH>> \o segments[k]
<1> DEFINE n == Len(segments)
           F == [x \in Texts \X (1 .. n) |-> x[1] \o <<SLASH>> \o segments[x[2]]]
           Step(it) == [s \in SUBSET DOMAIN segments |->
                          IF s = {} THEN <<>> ELSE it[s \ {Max(s)}] \o <<SLASH>> \o segments[Max(s)]]
           it == CHOOSE f : f = Step(f)
<1>0. <<>> \in Texts
  BY DEF Texts
<1>1. Flat(segments) = it[DOMAIN segments]
  BY Zenon DEF Flat, FoldLeft, MapThenFoldSet
<1>2. n \in Nat /\ DOMAIN segments = 1 .. n /\ \A k \in 1 .. n : segments[k] \in Texts
  OBVIOUS
<1>3. \A x \in Texts : \A k \in 1 .. n : x \o <<SLASH>> \o segments[k] \in Texts
  BY <1>2, SlashTypes DEF SlashType
<1>4. /\ F \in [Texts \X (1 .. n) -> Texts]
      /\ \A x \in Texts : \A k \in 1 .. n : F[<<x, k>>] = x \o <<SLASH>> \o segments[k]
  BY <1>3
<1>5. \A s : Max(s) = Largest(s)
  BY DEF Max, Largest
<1>6. it = Step(it)
  <2> HIDE DEF F, n
  <2>1. PICK f : Recursion(f, Texts, n, F, <<>>)
    BY <1>0, <1>2, <1>4, FoldRecursion
  <2>2. \A s \in SUBSET (1 .. n) : f[s] = IF s = {} THEN <<>> ELSE f[s \ {Max(s)}] \o <<SLASH>> \o segments[Max(s)]
    <3> TAKE s \in SUBSET (1 .. n)
    <3>1. s # {} => /\ Largest(s) \in 1 .. n /\ f[s \ {Largest(s)}] \in Texts
                    /\ f[s] = F[<<f[s \ {Largest(s)}], Largest(s)>>]
      BY <2>1 DEF Recursion
    <3>2. f[{}] = <<>>
      BY <2>1 DEF Recursion
    <3> QED
      BY <1>4, <1>5, <3>1, <3>2, Zenon
  <2>3. f = Step(f)
    <3>1. f \in [SUBSET (1 .. n) -> Texts] /\ SUBSET DOMAIN segments = SUBSET (1 .. n)
      BY <1>2, <2>1 DEF Recursion
    <3> QED
      BY <2>2, <3>1
  <2> HIDE DEF Step
  <2> QED
    BY <2>3, Zenon
<1> HIDE DEF it
<1>7. it[{}] = <<>>
  BY <1>2, <1>6
<1>8. \A s \in SUBSET (1 .. n) : s # {} /\ it[s \ {Largest(s)}] \in Texts =>
              it[s] = F[<<it[s \ {Largest(s)}], Largest(s)>>]
  <2> TAKE s \in SUBSET (1 .. n)
  <2> SUFFICES ASSUME s # {}, it[s \ {Largest(s)}] \in Texts
               PROVE  it[s] = F[<<it[s \ {Largest(s)}], Largest(s)>>]
    OBVIOUS
  <2>1. Largest(s) \in 1 .. n
    BY <1>2, LargestOf
  <2>2. it[s] = it[s \ {Max(s)}] \o <<SLASH>> \o segments[Max(s)]
    BY <1>2, <1>6
  <2> HIDE DEF F, n
  <2> QED
    BY <1>4, <1>5, <2>1, <2>2, Zenon
<1> HIDE DEF F, n
<1>9. PICK part : Partials(part, it, Texts, n, F, <<>>)
  BY <1>2, <1>4, <1>7, <1>8, <1>0, FoldPartials
<1>10. \A k \in 1 .. n : part[k] = part[k - 1] \o <<SLASH>> \o segments[k]
  <2> TAKE k \in 1 .. n
  <2>1. part[k - 1] \in Texts /\ part[k] = F[<<part[k - 1], k>>]
    <3>1. k - 1 \in 0 .. n
      BY <1>2
    <3>2. part \in [0 .. n -> Texts] /\ \A m \in 1 .. n : part[m] = F[<<part[m - 1], m>>]
      BY <1>9 DEF Partials
    <3> QED
      BY <3>1, <3>2
  <2> QED
    BY <1>4, <2>1, Zenon
<1>11. /\ part \in [0 .. n -> Texts]
       /\ part[0] = <<>> /\ part[n] = Flat(segments)
  BY <1>1, <1>2, <1>9 DEF Partials
<1> QED
  BY <1>10, <1>11 DEF n

LEMMA FlatNone == Flat(<<>>) = <<>>
<1>1. <<>> \in Seq(Texts) /\ Len(<<>>) = 0
  OBVIOUS
<1>2. PICK part \in [0 .. Len(<<>>) -> Texts] : part[0] = <<>> /\ part[Len(<<>>)] = Flat(<<>>)
  BY <1>1, FlatFold
<1> QED
  BY <1>1, <1>2

LEMMA FlatAppend ==
    ASSUME NEW segments \in Seq(Texts), NEW s \in Texts
    PROVE  /\ Append(segments, s) \in Seq(Texts) /\ Flat(segments) \in Texts
           /\ Flat(Append(segments, s)) = Flat(segments) \o <<SLASH>> \o s
<1> DEFINE n == Len(segments)
           more == Append(segments, s)
<1>1. /\ more \in Seq(Texts) /\ n \in Nat /\ Len(more) = n + 1 /\ more[n + 1] = s
      /\ \A k \in 1 .. n : more[k] = segments[k] /\ segments[k] \in Texts
  OBVIOUS
<1>2. PICK part \in [0 .. n -> Texts] :
             /\ part[0] = <<>> /\ part[n] = Flat(segments)
             /\ \A k \in 1 .. n : part[k] = part[k - 1] \o <<SLASH>> \o segments[k]
  BY FlatFold
<1>3. PICK next \in [0 .. Len(more) -> Texts] :
             /\ next[0] = <<>> /\ next[Len(more)] = Flat(more)
             /\ \A k \in 1 .. Len(more) : next[k] = next[k - 1] \o <<SLASH>> \o more[k]
  BY <1>1, FlatFold
<1> DEFINE Q == {k \in 0 .. n : next[k] = part[k]}
<1> HIDE DEF more, n
<1>4. 0 \in Q
  BY <1>1, <1>2, <1>3
<1>5. ASSUME NEW k \in 1 .. n, k - 1 \in Q PROVE k \in Q
  <2>1. k \in 0 .. n /\ k \in 1 .. Len(more) /\ next[k - 1] = part[k - 1] /\ more[k] = segments[k]
    BY <1>1, <1>5
  <2>2. /\ next[k] = next[k - 1] \o <<SLASH>> \o more[k]
        /\ part[k] = part[k - 1] \o <<SLASH>> \o segments[k]
    BY <1>2, <1>3, <2>1
  <2> QED
    BY <2>1, <2>2
<1>6. n \in Q
  <2>1. n \in 0 .. n
    BY <1>1
  <2> HIDE DEF Q
  <2> QED
    BY <1>1, <1>4, <1>5, <2>1, UpToInduction
<1>7. next[n + 1] = next[(n + 1) - 1] \o <<SLASH>> \o more[n + 1] /\ (n + 1) - 1 = n
  <2>1. n + 1 \in 1 .. Len(more)
    BY <1>1
  <2>2. next[n + 1] = next[(n + 1) - 1] \o <<SLASH>> \o more[n + 1]
    BY <1>3, <2>1
  <2>3. (n + 1) - 1 = n
    BY <1>1
  <2> QED
    BY <2>2, <2>3
<1>8. Flat(more) = Flat(segments) \o <<SLASH>> \o s
  BY <1>1, <1>2, <1>3, <1>6, <1>7
<1>9. Flat(segments) \in Texts
  <2>1. n \in 0 .. n
    BY <1>1
  <2> QED
    BY <1>2, <2>1
<1> QED
  BY <1>1, <1>8, <1>9 DEF more

LEMMA JoinedIsFlat ==
    ASSUME NEW segments \in Seq(Texts)
    PROVE  Joined(segments) = OrSlash(Flat(segments)) /\ Flat(segments) \in Texts
<1>1. CASE segments = <<>>
  <2>1. Joined(segments) = <<SLASH>> /\ Flat(segments) = <<>>
    BY <1>1, FlatNone DEF Joined
  <2> QED
    BY <2>1 DEF OrSlash, Texts
<1>2. CASE segments # <<>>
  <2> DEFINE n == Len(segments)
  <2>1. n \in Nat \ {0} /\ \A k \in 1 .. n : segments[k] \in Texts
    BY <1>2
  <2>2. PICK part \in [0 .. n -> Texts] :
               /\ part[0] = <<>> /\ part[n] = Flat(segments)
               /\ \A k \in 1 .. n : part[k] = part[k - 1] \o <<SLASH>> \o segments[k]
    BY FlatFold
  <2> HIDE DEF n
  <2>3. n \in 1 .. n /\ n - 1 \in 0 .. n /\ n \in 0 .. n
    BY <2>1
  <2> DEFINE text == part[n - 1]
             s == segments[n]
  <2>4. part[n] = text \o <<SLASH>> \o s /\ text \in Texts /\ s \in Texts /\ part[n] \in Texts
    BY <2>1, <2>2, <2>3
  <2> HIDE DEF text, s
  <2>5. part[n] # <<>>
    <3>1. Len(text \o <<SLASH>> \o s) = (Len(text) + 1) + Len(s) /\ Len(text) \in Nat /\ Len(s) \in Nat
      BY <2>4, JoinRuns, TextFacts
    <3>2. Len(<<>>) = 0
      OBVIOUS
    <3>3. (Len(text) + 1) + Len(s) # 0
      BY <3>1
    <3> QED
      BY <2>4, <3>1, <3>2, <3>3
  <2>6. Joined(segments) = Flat(segments)
    BY <1>2 DEF Joined, Flat
  <2> QED
    BY <2>2, <2>4, <2>5, <2>6 DEF OrSlash
<1> QED
  BY <1>1, <1>2

LEMMA FrontType == \A kept \in Seq(Texts) : SubSeq(kept, 1, Len(kept) - 1) \in Seq(Texts)
<1> TAKE kept \in Seq(Texts)
<1>1. Len(kept) \in Nat
  OBVIOUS
<1>2. CASE Len(kept) = 0
  <2>1. SubSeq(kept, 1, Len(kept) - 1) = <<>>
    BY <1>2, SubSeqEmpty
  <2> QED
    BY <2>1
<1>3. CASE Len(kept) # 0
  <2> DEFINE k == Len(kept) - 1
  <2>1. k \in Nat /\ k <= Len(kept)
    BY <1>1, <1>3
  <2> HIDE DEF k
  <2>2. SubSeq(kept, 1, k) \in Seq(Texts)
    BY <2>1
  <2> QED
    BY <2>2 DEF k
<1> QED
  BY <1>2, <1>3

KeptTurn(kept, s) ==
    IF s = <<".">> THEN kept ELSE IF s = DOTDOT THEN SubSeq(kept, 1, Len(kept) - 1) ELSE Append(kept, s)

LEMMA KeptTurns == \A kept \in Seq(Texts) : \A s \in Texts : KeptTurn(kept, s) \in Seq(Texts)
<1> TAKE kept \in Seq(Texts)
<1> TAKE s \in Texts
<1>1. Append(kept, s) \in Seq(Texts) /\ SubSeq(kept, 1, Len(kept) - 1) \in Seq(Texts)
  BY FrontType
<1> QED
  BY <1>1, Zenon DEF KeptTurn


LEMMA KeptFold ==
    ASSUME NEW segments \in Seq(Texts)
    PROVE  \E part \in [0 .. Len(segments) -> Seq(Texts)] :
             /\ part[0] = <<>> /\ part[Len(segments)] = WithoutDots(segments)
             /\ \A k \in 1 .. Len(segments) : part[k] = KeptTurn(part[k - 1], segments[k])
<1> DEFINE n == Len(segments)
           F == [x \in Seq(Texts) \X (1 .. n) |-> KeptTurn(x[1], segments[x[2]])]
           Step(it) == [s \in SUBSET DOMAIN segments |->
                          IF s = {} THEN <<>> ELSE KeptTurn(it[s \ {Max(s)}], segments[Max(s)])]
           it == CHOOSE f : f = Step(f)
<1>0. <<>> \in Seq(Texts)
  OBVIOUS
<1>1. WithoutDots(segments) = it[DOMAIN segments]
  BY Zenon DEF WithoutDots, KeptTurn, FoldLeft, MapThenFoldSet
<1>2. n \in Nat /\ DOMAIN segments = 1 .. n /\ \A k \in 1 .. n : segments[k] \in Texts
  OBVIOUS
<1>3. \A x \in Seq(Texts) : \A k \in 1 .. n : KeptTurn(x, segments[k]) \in Seq(Texts)
  BY <1>2, KeptTurns
<1>4. /\ F \in [Seq(Texts) \X (1 .. n) -> Seq(Texts)]
      /\ \A x \in Seq(Texts) : \A k \in 1 .. n : F[<<x, k>>] = KeptTurn(x, segments[k])
  BY <1>3
<1>5. \A s : Max(s) = Largest(s)
  BY DEF Max, Largest
<1>6. it = Step(it)
  <2> HIDE DEF F, n
  <2>1. PICK f : Recursion(f, Seq(Texts), n, F, <<>>)
    BY <1>0, <1>2, <1>4, FoldRecursion
  <2>2. \A s \in SUBSET (1 .. n) : f[s] = IF s = {} THEN <<>> ELSE KeptTurn(f[s \ {Max(s)}], segments[Max(s)])
    <3> TAKE s \in SUBSET (1 .. n)
    <3>1. s # {} => /\ Largest(s) \in 1 .. n /\ f[s \ {Largest(s)}] \in Seq(Texts)
                    /\ f[s] = F[<<f[s \ {Largest(s)}], Largest(s)>>]
      BY <2>1 DEF Recursion
    <3>2. f[{}] = <<>>
      BY <2>1 DEF Recursion
    <3> QED
      BY <1>4, <1>5, <3>1, <3>2, Zenon
  <2>3. f = Step(f)
    <3>1. f \in [SUBSET (1 .. n) -> Seq(Texts)] /\ SUBSET DOMAIN segments = SUBSET (1 .. n)
      BY <1>2, <2>1 DEF Recursion
    <3> QED
      BY <2>2, <3>1
  <2> HIDE DEF Step
  <2> QED
    BY <2>3, Zenon
<1> HIDE DEF it
<1>7. it[{}] = <<>>
  BY <1>2, <1>6
<1>8. \A s \in SUBSET (1 .. n) : s # {} /\ it[s \ {Largest(s)}] \in Seq(Texts) =>
              it[s] = F[<<it[s \ {Largest(s)}], Largest(s)>>]
  <2> TAKE s \in SUBSET (1 .. n)
  <2> SUFFICES ASSUME s # {}, it[s \ {Largest(s)}] \in Seq(Texts)
               PROVE  it[s] = F[<<it[s \ {Largest(s)}], Largest(s)>>]
    OBVIOUS
  <2>1. Largest(s) \in 1 .. n
    BY <1>2, LargestOf
  <2>2. it[s] = KeptTurn(it[s \ {Max(s)}], segments[Max(s)])
    BY <1>2, <1>6
  <2> HIDE DEF F, n
  <2> QED
    BY <1>4, <1>5, <2>1, <2>2, Zenon
<1> HIDE DEF F, n
<1>9. PICK part : Partials(part, it, Seq(Texts), n, F, <<>>)
  BY <1>2, <1>4, <1>7, <1>8, <1>0, FoldPartials
<1>10. \A k \in 1 .. n : part[k] = KeptTurn(part[k - 1], segments[k])
  <2> TAKE k \in 1 .. n
  <2>1. part[k - 1] \in Seq(Texts) /\ part[k] = F[<<part[k - 1], k>>]
    <3>1. k - 1 \in 0 .. n
      BY <1>2
    <3>2. part \in [0 .. n -> Seq(Texts)] /\ \A m \in 1 .. n : part[m] = F[<<part[m - 1], m>>]
      BY <1>9 DEF Partials
    <3> QED
      BY <3>1, <3>2
  <2> QED
    BY <1>4, <2>1, Zenon
<1>11. /\ part \in [0 .. n -> Seq(Texts)]
       /\ part[0] = <<>> /\ part[n] = WithoutDots(segments)
  BY <1>1, <1>2, <1>9 DEF Partials
<1> QED
  BY <1>10, <1>11 DEF n

(* What the loop makes of the segments: the empty components change nothing *)
LEMMA NormalSegments ==
    ASSUME NEW path \in Texts, NEW segments \in Seq(Texts),
           NEW d \in {0, 1}, NEW b \in 0 .. Len(segments), Shifted(Components(path), segments, b, d)
    PROVE  \E part \in [0 .. Len(segments) -> Normal] :
             /\ part[0] = [path |-> <<>>, before |-> FALSE] /\ part[Len(segments)] = Normalised(path)
             /\ \A k \in 1 .. Len(segments) : part[k] = WithComponent(part[k - 1], segments[k])
<1> DEFINE comps == Components(path)
           m == Len(comps)
           n == Len(segments)
<1>1. PICK all \in [0 .. m -> Normal] :
             /\ all[0] = [path |-> <<>>, before |-> FALSE] /\ all[m] = Normalised(path)
             /\ \A k \in 1 .. m : all[k] = WithComponent(all[k - 1], comps[k].text)
  BY NormalFold
<1>2. n \in Nat
  OBVIOUS
<1>3. /\ m = n + 1 + d /\ comps[1].text = <<>> /\ (d = 1 => comps[b + 2].text = <<>>)
      /\ \A k \in 1 .. b : comps[k + 1].text = segments[k]
      /\ \A k \in b + 1 .. n : comps[k + 1 + d].text = segments[k]
  BY DEF Shifted
<1> HIDE DEF comps, m, n
<1>4. \A normal : WithComponent(normal, <<>>) = normal
  BY DEF WithComponent
<1>5. b \in 0 .. n
  BY DEF n
<1>6. all[1] = [path |-> <<>>, before |-> FALSE]
  <2>1. 1 \in 1 .. m /\ 1 - 1 = 0
    BY <1>2, <1>3
  <2>2. all[1] = WithComponent(all[1 - 1], comps[1].text)
    BY <1>1, <2>1
  <2> QED
    BY <1>1, <1>3, <1>4, <2>1, <2>2
<1>7. d = 1 => all[b + 2] = all[b + 1]
  <2> SUFFICES ASSUME d = 1 PROVE all[b + 2] = all[b + 1]
    OBVIOUS
  <2>1. b + 2 \in 1 .. m /\ (b + 2) - 1 = b + 1
    BY <1>2, <1>3, <1>5
  <2>2. all[b + 2] = WithComponent(all[(b + 2) - 1], comps[b + 2].text)
    BY <1>1, <2>1
  <2> QED
    BY <1>3, <1>4, <2>1, <2>2
<1>8. all[b + 1 + d] = all[b + 1]
  <2>1. CASE d = 0
    <3>1. b + 1 + 0 = b + 1
      BY <1>5
    <3> QED
      BY <2>1, <3>1
  <2>2. CASE d = 1
    <3>1. b + 1 + 1 = b + 2
      BY <1>5
    <3> QED
      BY <1>7, <2>2, <3>1
  <2> QED
    BY <2>1, <2>2
<1> DEFINE at(k) == IF k <= b THEN k + 1 ELSE k + 1 + d
           part == [k \in 0 .. n |-> all[at(k)]]
<1>9. \A k \in 0 .. n : at(k) \in 0 .. m
  BY <1>2, <1>3, <1>5
<1>10. part \in [0 .. n -> Normal] /\ \A k \in 0 .. n : part[k] = all[at(k)]
  <2> HIDE DEF at
  <2> QED
    BY <1>1, <1>9
<1>11. part[0] = [path |-> <<>>, before |-> FALSE]
  <2>1. 0 \in 0 .. n /\ at(0) = 1
    BY <1>2, <1>5
  <2> HIDE DEF at, part
  <2> QED
    BY <1>6, <1>10, <2>1
<1>12. part[n] = Normalised(path)
  <2>1. n \in 0 .. n
    BY <1>2
  <2>2. part[n] = all[at(n)]
    <3> HIDE DEF at, part
    <3> QED
      BY <1>10, <2>1
  <2>3. CASE n <= b
    <3>1. n = b /\ at(n) = b + 1 /\ b + 1 + d = m
      BY <1>2, <1>3, <1>5, <2>3
    <3> HIDE DEF at, part
    <3> QED
      BY <1>1, <1>8, <2>2, <3>1
  <2>4. CASE ~(n <= b)
    <3>1. at(n) = m
      BY <1>3, <2>4
    <3> HIDE DEF at, part
    <3> QED
      BY <1>1, <2>2, <3>1
  <2> QED
    BY <2>3, <2>4
<1>13. ASSUME NEW k \in 1 .. n PROVE part[k] = WithComponent(part[k - 1], segments[k])
  <2>1. k \in 0 .. n /\ k - 1 \in 0 .. n
    BY <1>2
  <2>2. part[k] = all[at(k)] /\ part[k - 1] = all[at(k - 1)]
    <3> HIDE DEF at, part
    <3> QED
      BY <1>10, <2>1
  <2>3. CASE k <= b
    <3>1. at(k) = k + 1 /\ at(k - 1) = k /\ k + 1 \in 1 .. m /\ (k + 1) - 1 = k /\ k \in 1 .. b
      BY <1>2, <1>3, <1>5, <2>3
    <3> HIDE DEF at, part
    <3>2. all[k + 1] = WithComponent(all[(k + 1) - 1], comps[k + 1].text)
      BY <1>1, <3>1
    <3> QED
      BY <1>3, <2>2, <3>1, <3>2
  <2>4. CASE ~(k <= b)
    <3>1. at(k) = k + 1 + d /\ k + 1 + d \in 1 .. m /\ (k + 1 + d) - 1 = k + d /\ k \in b + 1 .. n
      BY <1>2, <1>3, <1>5, <2>4
    <3>2. all[at(k - 1)] = all[k + d]
      <4>1. CASE k - 1 = b
        <5>1. at(k - 1) = b + 1 /\ k + d = b + 1 + d
          BY <1>2, <1>5, <4>1
        <5> HIDE DEF at, part
        <5> QED
          BY <1>8, <5>1
      <4>2. CASE k - 1 # b
        <5>1. at(k - 1) = k + d
          BY <1>2, <1>5, <2>4, <4>2
        <5> HIDE DEF at, part
        <5> QED
          BY <5>1
      <4> QED
        BY <4>1, <4>2
    <3> HIDE DEF at, part
    <3>3. all[k + 1 + d] = WithComponent(all[(k + 1 + d) - 1], comps[k + 1 + d].text)
      BY <1>1, <3>1
    <3> QED
      BY <1>3, <2>2, <3>1, <3>2, <3>3
  <2> QED
    BY <2>3, <2>4
<1> QED
  <2> HIDE DEF part
  <2> QED
    BY <1>10, <1>11, <1>12, <1>13 DEF n

(* A dot segment finds nothing to take off *)
LEMMA NoneAgain ==
    /\ WithComponent([path |-> <<>>, before |-> FALSE], <<".">>) = [path |-> <<>>, before |-> FALSE]
    /\ WithComponent([path |-> <<>>, before |-> FALSE], DOTDOT) = [path |-> <<>>, before |-> FALSE]
<1>1. /\ <<".">> # <<>> /\ DOTDOT # <<>> /\ IsDots(<<".">>) /\ IsDots(DOTDOT) /\ <<".">> # DOTDOT
      /\ ~IsDots(<<>>)
  BY DEF IsDots, DOTDOT
<1>2. basename(<<>>) = <<>> /\ WithoutBase(<<>>) = <<>>
  <2>1. LastSlash(<<>>) = 0
    BY DEF LastSlash
  <2>2. basename(<<>>) = SubSeq(<<>>, 0 + 1, Len(<<>>)) /\ WithoutBase(<<>>) = SubSeq(<<>>, 1, 0 - 1)
    BY <2>1 DEF basename, WithoutBase
  <2> QED
    BY <2>2, SubSeqEmpty
<1> DEFINE none == [path |-> <<>>, before |-> FALSE]
<1>3. none.path = <<>> /\ [none EXCEPT !.path = <<>>] = none
  OBVIOUS
<1> HIDE DEF none
<1>4. \A comp : comp # <<>> /\ IsDots(comp) => WithComponent(none, comp) = [none EXCEPT !.path = <<>>]
  BY <1>1, <1>2, <1>3 DEF WithComponent
<1> QED
  BY <1>1, <1>3, <1>4 DEF none

LEMMA NormalIsFlat ==
    ASSUME NEW path \in Texts, NEW segments \in Seq(Texts),
           NEW d \in {0, 1}, NEW b \in 0 .. Len(segments), Shifted(Components(path), segments, b, d),
           <<>> \notin ToSet(segments),
           \A n \in DOMAIN segments : IsDots(segments[n]) => \A m \in 1 .. n - 1 : IsDots(segments[m])
    PROVE  /\ Normalised(path) = [path |-> Flat(WithoutDots(segments)), before |-> FALSE]
           /\ WithoutDots(segments) \in Seq(Texts)
<1> DEFINE n == Len(segments)
           state(text) == [path |-> text, before |-> FALSE]
<1>1. n \in Nat /\ \A k \in 1 .. n : segments[k] \in Texts /\ segments[k] # <<>>
  BY NoneEmpty
<1>2. \A k \in 1 .. n : IsDots(segments[k]) => \A m \in 1 .. k - 1 : IsDots(segments[m])
  OBVIOUS
<1>3. PICK part \in [0 .. n -> Normal] :
             /\ part[0] = [path |-> <<>>, before |-> FALSE] /\ part[n] = Normalised(path)
             /\ \A k \in 1 .. n : part[k] = WithComponent(part[k - 1], segments[k])
  BY NormalSegments
<1>4. PICK kept \in [0 .. n -> Seq(Texts)] :
             /\ kept[0] = <<>> /\ kept[n] = WithoutDots(segments)
             /\ \A k \in 1 .. n : kept[k] = KeptTurn(kept[k - 1], segments[k])
  BY KeptFold
<1> DEFINE Q == {k \in 0 .. n : /\ part[k] = state(Flat(kept[k]))
                                /\ (\A m \in 1 .. k : IsDots(segments[m])) => kept[k] = <<>>}
<1> HIDE DEF n
<1>5. 0 \in Q
  <2>1. kept[0] = <<>> /\ part[0] = state(<<>>)
    BY <1>3, <1>4
  <2>2. part[0] = state(Flat(kept[0]))
    BY <2>1, FlatNone, Zenon
  <2>3. 0 \in 0 .. n
    BY <1>1
  <2> QED
    BY <2>1, <2>2, <2>3
<1>6. ASSUME NEW k \in 1 .. n, k - 1 \in Q PROVE k \in Q
  <2> DEFINE s == segments[k]
             old == kept[k - 1]
  <2>1. k \in 0 .. n /\ k - 1 \in 0 .. n
    BY <1>1
  <2>2. /\ part[k - 1] = state(Flat(old))
        /\ (\A m \in 1 .. k - 1 : IsDots(segments[m])) => old = <<>>
    BY <1>6
  <2>3. part[k] = WithComponent(state(Flat(old)), s)
    BY <1>3, <2>2
  <2>4. old \in Seq(Texts) /\ s \in Texts /\ s # <<>>
    BY <1>1, <1>4, <2>1
  <2>5. kept[k] = IF s = <<".">> THEN old ELSE IF s = DOTDOT THEN SubSeq(old, 1, Len(old) - 1) ELSE Append(old, s)
    <3>1. kept[k] = KeptTurn(kept[k - 1], segments[k])
      BY <1>4
    <3> QED
      BY <3>1, Zenon DEF KeptTurn
  <2>6. CASE IsDots(s)
    <3>1. \A m \in 1 .. k - 1 : IsDots(segments[m])
      BY <1>2, <2>6
    <3>2. old = <<>>
      BY <2>2, <3>1
    <3> HIDE DEF old, s
    <3>3. kept[k] = <<>>
      <4>1. SubSeq(<<>>, 1, Len(<<>>) - 1) = <<>>
        BY SubSeqEmpty
      <4> QED
        BY <2>5, <2>6, <3>2, <4>1, Zenon DEF IsDots
    <3>4. part[k] = WithComponent(state(<<>>), s)
      BY <2>3, <3>2, FlatNone, Zenon
    <3>5. part[k] = state(<<>>)
      <4>1. s = <<".">> \/ s = DOTDOT
        BY <2>6 DEF IsDots
      <4> QED
        BY <3>4, <4>1, NoneAgain, Zenon
    <3>6. part[k] = state(Flat(kept[k]))
      BY <3>3, <3>5, FlatNone, Zenon
    <3> QED
      BY <2>1, <3>3, <3>6
  <2>7. CASE ~IsDots(s)
    <3>1. ~(\A m \in 1 .. k : IsDots(segments[m]))
      <4>1. k \in 1 .. k
        BY <1>1
      <4> QED
        BY <2>7, <4>1
    <3> HIDE DEF old, s
    <3>2. kept[k] = Append(old, s)
      BY <2>5, <2>7 DEF IsDots
    <3>3. Flat(kept[k]) = Flat(old) \o <<SLASH>> \o s
      BY <2>4, <3>2, FlatAppend
    <3>4. \A text : WithComponent(state(text), s) = state(text \o <<SLASH>> \o s)
      BY <2>4, <2>7 DEF WithComponent
    <3>5. part[k] = state(Flat(kept[k]))
      BY <2>3, <3>3, <3>4, Zenon
    <3> QED
      BY <2>1, <3>1, <3>5
  <2> QED
    BY <2>6, <2>7
<1>7. n \in Q
  <2>1. n \in 0 .. n
    BY <1>1
  <2> HIDE DEF Q
  <2> QED
    BY <1>1, <1>5, <1>6, <2>1, UpToInduction
<1>8. n \in 0 .. n
  BY <1>1
<1> QED
  BY <1>3, <1>4, <1>7, <1>8

LEMMA MergedIs ==
    ASSUME NEW parsed \in UriType, NEW loc \in Texts, loc # <<>>,
           IsParsed(parsed), ~IsAbsolute(loc), ~Strays(parsed, loc)
    PROVE  LET path == FullPath(parsed, loc)
               segments == MergedPath(parsed, loc)
           IN  /\ path \in Texts /\ segments \in Seq(Texts)
               /\ loc[1] = SLASH => OnOwnHost(loc)
               /\ \E d \in {0, 1} : \E b \in 0 .. Len(segments) : Shifted(Components(path), segments, b, d)
               /\ SubSeq(path, Last(Components(path)).end, Len(path)) = SubSeq(loc, Stop(loc), Len(loc))
<1>1. CASE loc[1] = SLASH
  <2>1. FullPath(parsed, loc) = loc
    BY <1>1 DEF FullPath
  <2>2. <<>> \notin ToSet(MergedPath(parsed, loc)) /\ ~ThirdIsSlash(loc)
    BY <1>1, NotStray
  <2>3. /\ Shifted(Components(loc), MergedPath(parsed, loc), 0, 0)
        /\ MergedPath(parsed, loc) \in Seq(Texts) /\ Len(loc) > 1
        /\ Last(Components(loc)).end = Stop(loc)
    BY <1>1, <2>2, MergedAtRoot
  <2>4. OnOwnHost(loc)
    BY <1>1, <2>2, <2>3 DEF OnOwnHost
  <2>5. 0 \in {0, 1} /\ 0 \in 0 .. Len(MergedPath(parsed, loc))
    BY <2>3
  <2> QED
    BY <2>1, <2>3, <2>4, <2>5
<1>2. CASE loc[1] # SLASH
  BY <1>2, MergedAtPage
<1> QED
  BY <1>1, <1>2

LEMMA NormPathIs ==
    ASSUME NEW parsed \in UriType, NEW loc \in Texts, loc # <<>>,
           IsParsed(parsed), ~IsAbsolute(loc), ~Strays(parsed, loc)
    PROVE  LET path == FullPath(parsed, loc)
               joined == Joined(WithoutDots(MergedPath(parsed, loc)))
           IN  /\ ~BeforeBuffer(path) /\ joined \in Texts
               /\ httpnormpath(path) = joined \o SubSeq(loc, Stop(loc), Len(loc))
<1> DEFINE path == FullPath(parsed, loc)
           segments == MergedPath(parsed, loc)
           left == WithoutDots(segments)
<1>1. /\ path \in Texts /\ segments \in Seq(Texts)
      /\ \E d \in {0, 1} : \E b \in 0 .. Len(segments) : Shifted(Components(path), segments, b, d)
      /\ SubSeq(path, Last(Components(path)).end, Len(path)) = SubSeq(loc, Stop(loc), Len(loc))
  BY MergedIs
<1>2. /\ <<>> \notin ToSet(segments)
      /\ \A n \in DOMAIN segments : IsDots(segments[n]) => \A m \in 1 .. n - 1 : IsDots(segments[m])
  BY NotStray
<1> HIDE DEF path, segments
<1>3. PICK d \in {0, 1} : \E b \in 0 .. Len(segments) : Shifted(Components(path), segments, b, d)
  BY <1>1
<1>4. PICK b \in 0 .. Len(segments) : Shifted(Components(path), segments, b, d)
  BY <1>3
<1>5. Normalised(path) = [path |-> Flat(left), before |-> FALSE] /\ left \in Seq(Texts)
  BY <1>1, <1>2, <1>4, NormalIsFlat
<1> HIDE DEF left
<1>6. Normalised(path).path = Flat(left) /\ ~Normalised(path).before
  BY <1>5
<1>7. OrSlash(Flat(left)) = Joined(left) /\ Flat(left) \in Texts
  BY <1>5, JoinedIsFlat
<1>8. Joined(left) \in Texts
  BY <1>7, SlashTypes DEF OrSlash, SlashType
<1>9. httpnormpath(path) = Joined(left) \o SubSeq(loc, Stop(loc), Len(loc))
  BY <1>1, <1>6, <1>7 DEF httpnormpath
<1> QED
  BY <1>6, <1>8, <1>9 DEF path, left, segments, BeforeBuffer

LEMMA ConcatTexts ==
    ASSUME NEW s \in Texts, NEW t \in Texts, NEW u \in Texts
    PROVE  (s \o t) \o u = s \o (t \o u)
BY ConcatAssociative DEF Texts

(* A page that loses nothing of its authority has it in the Host header *)
LEMMA AuthorityIs ==
    ASSUME NEW parsed \in UriType, NEW loc, IsParsed(parsed),
           ~HasScheme(loc), ~LosesAuthority(parsed, loc)
    PROVE  Authority(parsed) = HostHeader(parsed)
<1> DEFINE bare == parsed.port \in {0, ImpliedPort(parsed.scheme)}
           port == IF bare THEN <<>> ELSE <<COLON>> \o Digits(parsed.port)
           host == parsed.hostname
<1>1. host \in Texts /\ <<"http">> # <<"https">>
  BY DEF IsParsed, UriType, PartType
<1>2. Authority(parsed) = (<<>> \o host) \o port
  BY DEF LosesAuthority, Authority
<1>3. HostHeader(parsed) = host \o port
  <2>1. bare <=> ~(\/ parsed.scheme = <<"http">> /\ parsed.port \notin {0, HTTP_PORT}
                   \/ parsed.scheme = <<"https">> /\ parsed.port \notin {0, HTTPS_PORT})
    BY <1>1 DEF LosesAuthority, ImpliedPort, HTTP_PORT, HTTPS_PORT
  <2> HIDE DEF bare
  <2> QED
    BY <2>1 DEF HostHeader
<1> HIDE DEF host, port
<1>4. <<>> \o host = host
  BY <1>1 DEF Texts
<1> QED
  BY <1>2, <1>3, <1>4

(* A Location that is followed to where it leads *)
LEMMA RedirectResolves ==
    ASSUME NEW req \in [uri : UriType, host : Texts], NEW loc \in Texts, loc # <<>>,
           IsParsed(req.uri), req.host = HostHeader(req.uri), ~Strays(req.uri, loc),
           ~LosesAuthority(req.uri, loc)
    PROVE  ~IsInvalid(loc) /\ Redirected(req, loc) = Resolved(req.uri, loc)
<1> DEFINE parsed == req.uri
<1>1. parsed \in UriType
  OBVIOUS
<1>2. CASE IsAbsolute(loc)
  <2>1. HasScheme(loc) = IsAbsolute(loc)
    BY Zenon DEF Strays
  <2>2. HasScheme(loc) /\ loc[1] # SLASH
    BY <1>2, <2>1 DEF IsAbsolute, SLASH
  <2>3. Redirected(req, loc) = loc /\ Resolved(req.uri, loc) = loc
    BY <1>2, <2>2 DEF Redirected, Resolved
  <2> QED
    BY <2>2, <2>3 DEF IsInvalid
<1>3. CASE ~IsAbsolute(loc)
  <2> DEFINE joined == Joined(WithoutDots(MergedPath(parsed, loc)))
             rest == SubSeq(loc, Stop(loc), Len(loc))
             norm == httpnormpath(FullPath(parsed, loc))
             host == req.host
             scheme == parsed.scheme
             first == scheme \o SCHEME_SEPARATOR
  <2>1. loc[1] = SLASH => OnOwnHost(loc)
    BY <1>1, <1>3, MergedIs
  <2>2. ~HasScheme(loc) /\ Authority(parsed) = host
    BY <1>1, <1>3, NotStray, AuthorityIs
  <2>3. norm = joined \o rest /\ joined \in Texts
    BY <1>1, <1>3, NormPathIs
  <2>4. rest \in Texts
    BY LocPathIs
  <2>5. scheme \in Texts
    BY <1>1 DEF IsParsed, UriType, PartType
  <2>6. first \in Texts /\ host \in Texts
    BY <2>5, MarkTypes, ConcatIs
  <2>7. Redirected(req, loc) = first \o (host \o norm)
    BY <1>3, <2>1 DEF Redirected
  <2>8. Resolved(req.uri, loc) = ((first \o host) \o joined) \o rest
    BY <2>2 DEF Resolved, Stop
  <2> HIDE DEF joined, rest, norm, host, first
  <2> DEFINE mid == host \o joined
  <2>9. mid \in Texts
    BY <2>3, <2>6, ConcatIs
  <2>10. ((first \o host) \o joined) \o rest = first \o (host \o norm)
    <3>1. (first \o host) \o joined = first \o mid
      BY <2>3, <2>6, ConcatTexts
    <3>2. mid \o rest = host \o norm
      BY <2>3, <2>4, <2>6, ConcatTexts
    <3> HIDE DEF mid
    <3>3. (first \o mid) \o rest = first \o (mid \o rest)
      BY <2>4, <2>6, <2>9, ConcatTexts
    <3> QED
      BY <3>1, <3>2, <3>3
  <2>11. ~IsInvalid(loc)
    BY <2>1 DEF IsInvalid
  <2> QED
    BY <2>7, <2>8, <2>10, <2>11
<1> QED
  BY <1>2, <1>3

LEMMA FullPathType ==
    ASSUME NEW parsed \in UriType, NEW loc \in Texts
    PROVE  FullPath(parsed, loc) \in Texts
<1>1. parsed.path = Null \/ parsed.path \in Texts
  BY DEF UriType, PartType
<1>2. <<SLASH>> \in Texts /\ <<>> \in Texts
  BY SlashTypes DEF SlashType
<1> DEFINE x == IF parsed.path = Null THEN <<>> ELSE parsed.path \o <<SLASH>>
<1>3. x \in Texts
  BY <1>1, <1>2, ConcatIs
<1> HIDE DEF x
<1>4. <<SLASH>> \o x \in Texts
  BY <1>2, <1>3, ConcatIs
<1>5. (<<SLASH>> \o x) \o loc \in Texts
  BY <1>4, ConcatIs
<1> QED
  BY <1>5 DEF FullPath, x

LEMMA RedirectedType ==
    ASSUME NEW req \in [uri : UriType, host : Texts], NEW loc \in Texts, IsParsed(req.uri)
    PROVE  Redirected(req, loc) \in Texts
<1> DEFINE scheme == req.uri.scheme
           first == scheme \o SCHEME_SEPARATOR
           host == req.host
           norm == httpnormpath(FullPath(req.uri, loc))
<1>1. scheme \in Texts /\ host \in Texts /\ req.uri \in UriType
  BY DEF IsParsed, UriType, PartType
<1>2. first \in Texts
  BY <1>1, MarkTypes, ConcatIs
<1>3. norm \in Texts
  BY <1>1, FullPathType, NormPathFits
<1>4. AfterSlashes(loc) \in Texts
  <2> DEFINE rest == {k \in DOMAIN loc : loc[k] # SLASH}
  <2>1. Len(loc) \in Nat /\ DOMAIN loc = 1 .. Len(loc)
    BY TextFacts
  <2>2. CASE rest = {}
    BY <2>2 DEF AfterSlashes, Texts
  <2>3. CASE rest # {}
    <3>1. rest \in SUBSET Nat
      BY <2>1
    <3> DEFINE a == Min(rest)
    <3>2. AfterSlashes(loc) = SubSeq(loc, a, Len(loc))
      BY <2>3 DEF AfterSlashes
    <3>3. a \in rest
      <4> HIDE DEF rest
      <4> QED
        BY <2>3, <3>1, MinOf
    <3>4. a \in Nat \ {0}
      <4>1. a \in 1 .. Len(loc)
        BY <2>1, <3>3
      <4> HIDE DEF a
      <4> QED
        BY <2>1, <4>1
    <3> HIDE DEF a, rest
    <3>5. SubSeq(loc, a, Len(loc)) \in Texts
      BY <2>1, <3>4, Sub
    <3> QED
      BY <3>2, <3>5
  <2> QED
    BY <2>2, <2>3
<1>5. host \o norm \in Texts
  BY <1>1, <1>3, ConcatIs
<1>6. first \o (host \o norm) \in Texts /\ first \o AfterSlashes(loc) \in Texts
  BY <1>2, <1>4, <1>5, ConcatIs
<1>7. Redirected(req, loc) \in {loc, first \o (host \o norm), first \o AfterSlashes(loc)}
  BY DEF Redirected
<1> QED
  BY <1>6, <1>7

-------------------------------------------------------------------------------
(* The invariant *)

(* The part of the invariant that is about the texts themselves *)
Sound == TypeOK /\ AsParsed /\ Unfinished /\ BuffersHold /\ LeadsWhereItSays

LEMMA ParseCodes == \A text : ParseCode(text) # "HTTP_HEADERS_INVALID_LOCATION"
BY DEF ParseCode, CodeAt, CodeOf

LEMMA InitSound == Init => Sound
<1> SUFFICES ASSUME Init PROVE Sound
  OBVIOUS
<1>1. NoUri \in UriType /\ AuthIsUser(NoUri) /\ <<>> \in Texts
  BY NoUriType DEF Texts
<1>2. NoRequest \in [uri : UriType, host : Texts] /\ NoRequest.uri = NoUri
  BY <1>1 DEF NoRequest
<1>3. NoResponse \in ResponseType
  BY DEF NoResponse, ResponseType, ResponseCodes, HeaderType
<1>4. TypeOK
  <2>1. 0 \in 0 .. MaxRedirects + 1
    <3>1. MaxRedirects \in Nat
      BY RoundAssumption
    <3> QED
      BY <3>1
  <2>2. \A parsed \in {uri, request.uri} : parsed = NoUri
    BY <1>2 DEF Init
  <2> QED
    BY <1>1, <1>2, <1>3, <2>1, <2>2 DEF Init, TypeOK, AuthIsUser
<1>5. AsParsed /\ BuffersHold /\ LeadsWhereItSays
  BY DEF Init, AsParsed, BuffersHold, LeadsWhereItSays
<1>6. Unfinished
  <2>1. MaxRedirects \in Nat
    BY RoundAssumption
  <2> QED
    BY <2>1 DEF Init, Unfinished
<1> QED
  BY <1>4, <1>5, <1>6 DEF Sound

(* Each action keeps the invariant *)
LEMMA CallKeeps == Sound /\ Call => Sound'
<1> SUFFICES ASSUME Sound, Call PROVE Sound'
  OBVIOUS
<1>1. meant' \in Texts /\ source' = meant' /\ pc = "idle" /\ pc' = "clean"
  BY RoundAssumption DEF Call
<1>2. UNCHANGED <<uri, target, request, message, answered, redirects, code, over>>
  BY DEF Call
<1>3. UNCHANGED <<answer, response, location>>
  BY <1>2 DEF answered
<1>4. TypeOK'
  BY <1>1, <1>2, <1>3 DEF Sound, TypeOK
<1>5. AsParsed' /\ Unfinished' /\ BuffersHold' /\ LeadsWhereItSays'
  BY <1>1, <1>2, <1>3 DEF Sound, AsParsed, Unfinished, BuffersHold, LeadsWhereItSays
<1> QED
  BY <1>4, <1>5 DEF Sound

LEMMA CaptureKeeps == Sound /\ Capture => Sound'
<1> SUFFICES ASSUME Sound, Capture PROVE Sound'
  OBVIOUS
<1>1. meant' \in Texts /\ pc = "idle" /\ pc' = "clean"
  BY RoundAssumption DEF Capture
<1>2. UNCHANGED <<uri, target, request, message, answered, redirects, code, over>>
  BY DEF Capture
<1>3. UNCHANGED <<answer, response, location>>
  BY <1>2 DEF answered
<1>4. source' \in Texts
  <2>1. PICK places \in SUBSET Quotable(meant') :
          source' = WithScheme(rfc3986_unquote_safe(QuotedAt(meant', places)))
    BY DEF Capture
  <2>2. QuotedAt(meant', places) \in Texts
    BY <1>1, QuotedType
  <2>3. rfc3986_unquote_safe(QuotedAt(meant', places)) \in Texts
    BY <2>2, UnquotedType
  <2> QED
    BY <2>1, <2>3, WithSchemeType
<1>5. TypeOK'
  BY <1>1, <1>2, <1>3, <1>4 DEF Sound, TypeOK
<1>6. AsParsed' /\ Unfinished' /\ BuffersHold' /\ LeadsWhereItSays'
  BY <1>1, <1>2, <1>3 DEF Sound, AsParsed, Unfinished, BuffersHold, LeadsWhereItSays
<1> QED
  BY <1>5, <1>6 DEF Sound

LEMMA CleanKeeps == Sound /\ Clean => Sound'
<1> SUFFICES ASSUME Sound, Clean PROVE Sound'
  OBVIOUS
<1>0. source \in Texts /\ pc = "clean" /\ TypeOK
  BY DEF Sound, TypeOK, Clean
<1> DEFINE read == uri_parse(source)
           kept == [read.uri EXCEPT !.query = Rebuilt(@)]
<1>1. /\ UNCHANGED <<meant, source, request, message, answered, redirects>>
      /\ IF read.code = "SUCCESS"
         THEN /\ uri' = read.uri
              /\ target' = uri_stringify(kept)
              /\ over' = Overrun("target_url", MemSize(kept) + 1, target')
              /\ pc' = "set_url"
              /\ UNCHANGED code
         ELSE Return(read.code) /\ UNCHANGED <<uri, target, over>>
  BY DEF Clean
<1>2. UNCHANGED <<answer, response, location>>
  BY <1>1 DEF answered
<1>3. read.uri \in UriType /\ AuthIsUser(read.uri) /\ read.code = ParseCode(source)
      /\ (read.code = "SUCCESS" => IsParsed(read.uri))
  BY <1>0, UriParseType
<1>4. read.code # "HTTP_HEADERS_INVALID_LOCATION"
  BY <1>3, ParseCodes
<1> HIDE DEF read
<1>5. CASE read.code = "SUCCESS"
  <2>1. kept \in UriType /\ kept.scheme # Null /\ kept.hostname # Null
    <3>1. Rebuilt(read.uri.query) \in PartType
      BY <1>3, RebuiltType DEF UriType
    <3>2. kept \in UriType
      BY <1>3, <3>1 DEF UriType
    <3>3. kept.scheme = read.uri.scheme /\ kept.hostname = read.uri.hostname
      BY <1>3 DEF UriType
    <3> QED
      BY <1>3, <1>5, <3>2, <3>3 DEF IsParsed
  <2>2. target' \in Texts /\ over' = {}
    <3> HIDE DEF kept
    <3>1. target' = uri_stringify(kept) /\ over' = Overrun("target_url", MemSize(kept) + 1, target')
      BY <1>1, <1>5 DEF kept
    <3>2. target' \in Texts /\ Length(target') = MemSize(kept)
      BY <2>1, <3>1, PrintedFits
    <3>3. Length(target') \in Nat
      BY <3>2, LengthType
    <3>4. ~(Length(target') + 1 > MemSize(kept) + 1)
      BY <3>2, <3>3
    <3> QED
      BY <3>1, <3>2, <3>4 DEF Overrun
  <2>3. uri' = read.uri /\ pc' = "set_url" /\ code' = code
    BY <1>1, <1>5
  <2>4. TypeOK'
    BY <1>0, <1>1, <1>2, <1>3, <2>2, <2>3 DEF TypeOK, AuthIsUser
  <2>5. AsParsed' /\ Unfinished' /\ BuffersHold' /\ LeadsWhereItSays'
    BY <1>0, <1>1, <1>2, <1>3, <1>5, <2>2, <2>3
       DEF Sound, AsParsed, Unfinished, BuffersHold, LeadsWhereItSays
  <2> QED
    BY <2>4, <2>5 DEF Sound
<1>6. CASE read.code # "SUCCESS"
  <2>1. pc' = "done" /\ code' = read.code /\ UNCHANGED <<uri, target, over>>
    BY <1>1, <1>6 DEF Return
  <2>2. TypeOK'
    BY <1>0, <1>1, <1>2, <2>1 DEF TypeOK
  <2>3. AsParsed' /\ Unfinished' /\ BuffersHold' /\ LeadsWhereItSays'
    BY <1>0, <1>1, <1>2, <1>4, <2>1
       DEF Sound, AsParsed, Unfinished, BuffersHold, LeadsWhereItSays
  <2> QED
    BY <2>2, <2>3 DEF Sound
<1> QED
  BY <1>5, <1>6

LEMMA SetUrlKeeps == Sound /\ SetUrl => Sound'
<1> SUFFICES ASSUME Sound, SetUrl PROVE Sound'
  OBVIOUS
<1>0. target \in Texts /\ pc = "set_url" /\ TypeOK /\ over = {}
  BY DEF Sound, TypeOK, SetUrl, BuffersHold
<1> DEFINE read == uri_parse(target)
           host == HostHeader(read.uri)
<1>1. /\ UNCHANGED <<meant, source, uri, target, message, answered, redirects>>
      /\ IF read.code = "SUCCESS"
         THEN /\ request' = [uri |-> read.uri, host |-> host]
              /\ over' = over \cup Overrun("host", HostRoom(read.uri), host)
              /\ pc' = "send"
              /\ UNCHANGED code
         ELSE Return(read.code) /\ UNCHANGED <<request, over>>
  BY DEF SetUrl
<1>2. UNCHANGED <<answer, response, location>>
  BY <1>1 DEF answered
<1>3. read.uri \in UriType /\ AuthIsUser(read.uri) /\ read.code = ParseCode(target)
      /\ (read.code = "SUCCESS" => IsParsed(read.uri))
  BY <1>0, UriParseType
<1>4. read.code # "HTTP_HEADERS_INVALID_LOCATION"
  BY <1>3, ParseCodes
<1> HIDE DEF read
<1>5. CASE read.code = "SUCCESS"
  <2>1. IsParsed(read.uri) /\ read.uri.hostname # Null
    BY <1>3, <1>5 DEF IsParsed
  <2>2. host \in Texts /\ (Length(host) + 1 > HostRoom(read.uri) <=> host # read.uri.hostname)
    BY <1>3, <2>1, HostHeaderFits
  <2>3. /\ request' = [uri |-> read.uri, host |-> host] /\ pc' = "send" /\ code' = code
        /\ over' = Overrun("host", HostRoom(read.uri), host)
    BY <1>0, <1>1, <1>5
  <2>4. over' \subseteq {"host"} /\ ("host" \in over' <=> host # read.uri.hostname)
    BY <2>2, <2>3 DEF Overrun
  <2>5. request'.uri = read.uri /\ request'.host = host /\ request' \in [uri : UriType, host : Texts]
    <3> HIDE DEF host
    <3> QED
      BY <1>3, <2>2, <2>3
  <2>6. TypeOK'
    <3>1. \A parsed \in {uri', request'.uri} :
             parsed.has_authentication <=> parsed.username # Null \/ parsed.password # Null
      BY <1>0, <1>1, <1>3, <2>5 DEF TypeOK, AuthIsUser
    <3> HIDE DEF host
    <3> QED
      BY <1>0, <1>1, <1>2, <2>3, <2>4, <2>5, <3>1 DEF TypeOK
  <2>7. AsParsed' /\ Unfinished' /\ BuffersHold' /\ LeadsWhereItSays'
    <3>1. AsParsed'
      BY <2>1, <2>3, <2>5 DEF AsParsed
    <3> HIDE DEF host
    <3>2. Unfinished' /\ LeadsWhereItSays'
      BY <1>0, <1>1, <2>3 DEF Sound, Unfinished, LeadsWhereItSays
    <3>3. BuffersHold'
      BY <2>3, <2>4, <2>5 DEF BuffersHold
    <3> QED
      BY <3>1, <3>2, <3>3
  <2> QED
    BY <2>6, <2>7 DEF Sound
<1>6. CASE read.code # "SUCCESS"
  <2>1. pc' = "done" /\ code' = read.code /\ UNCHANGED <<request, over>>
    BY <1>1, <1>6 DEF Return
  <2>2. TypeOK'
    BY <1>0, <1>1, <1>2, <2>1 DEF TypeOK
  <2>3. AsParsed' /\ Unfinished' /\ BuffersHold' /\ LeadsWhereItSays'
    BY <1>0, <1>1, <1>2, <1>4, <2>1
       DEF Sound, AsParsed, Unfinished, BuffersHold, LeadsWhereItSays
  <2> QED
    BY <2>2, <2>3 DEF Sound
<1> QED
  BY <1>5, <1>6

LEMMA SendKeeps == Sound /\ Send => Sound'
<1> SUFFICES ASSUME Sound, Send PROVE Sound'
  OBVIOUS
<1>1. /\ pc = "send" /\ pc' = "answer"
      /\ UNCHANGED <<meant, source, uri, target, request, answered, redirects, code>>
      /\ message' = Message(Resource(request.uri), request.host)
      /\ over' = over \cup Overrun("request", MessageRoom(Resource(request.uri), request.host), message')
  BY DEF Send
<1>2. UNCHANGED <<answer, response, location>>
  BY <1>1 DEF answered
<1>3. over' = over \/ over' = over \cup {"request"}
  BY <1>1 DEF Overrun
<1>4. message' \in Texts
  <2>1. request.uri \in UriType /\ request.host \in Texts
    BY DEF Sound, TypeOK
  <2>2. Resource(request.uri) \in Texts
    BY <2>1, ResourceType
  <2> QED
    BY <1>1, <2>1, <2>2, MessageType
<1>5. TypeOK'
  <2>1. TypeOK
    BY DEF Sound
  <2> QED
    BY <1>1, <1>2, <1>3, <1>4, <2>1 DEF TypeOK
<1>6. AsParsed' /\ Unfinished' /\ LeadsWhereItSays'
  BY <1>1, <1>2 DEF Sound, AsParsed, Unfinished, LeadsWhereItSays
<1>7. BuffersHold'
  <2>1. /\ "target_url" \notin over /\ ("host" \in over <=> request.host # request.uri.hostname)
        /\ "path" \notin over
        /\ "before path" \in over => ~IsAbsolute(location) /\ Strays(request.uri, location)
    BY <1>1 DEF Sound, BuffersHold
  <2>2. \A name \in {"target_url", "host", "path", "before path"} : name \in over' <=> name \in over
    BY <1>3
  <2> QED
    BY <1>1, <1>2, <2>1, <2>2 DEF BuffersHold
<1> QED
  BY <1>5, <1>6, <1>7 DEF Sound

LEMMA ReceiveKeeps == Sound /\ Receive => Sound'
<1> SUFFICES ASSUME Sound, Receive PROVE Sound'
  OBVIOUS
<1>1. /\ pc = "answer" /\ answer' \in Texts /\ response' = parse_http_response(answer')
      /\ UNCHANGED <<meant, source, uri, target, request, message, location, redirects, over>>
      /\ \/ pc' = "redirect" /\ code' = code
         \/ pc' = "done" /\ code' = response'.code
  BY DEF Receive, Return
<1>2. response' \in ResponseType
  BY <1>1, ResponseIsTyped
<1>3. response'.code # "HTTP_HEADERS_INVALID_LOCATION"
  <2>1. response'.code \in ResponseCodes
    BY <1>2 DEF ResponseType
  <2> QED
    BY <2>1 DEF ResponseCodes
<1>4. TypeOK'
  <2>1. TypeOK
    BY DEF Sound
  <2> QED
    BY <1>1, <1>2, <2>1 DEF TypeOK
<1>5. AsParsed' /\ Unfinished' /\ LeadsWhereItSays'
  BY <1>1, <1>3 DEF Sound, AsParsed, Unfinished, LeadsWhereItSays
<1>6. BuffersHold'
  BY <1>1 DEF Sound, BuffersHold
<1> QED
  BY <1>4, <1>5, <1>6 DEF Sound

LEMMA AnsweredKeeps == Sound /\ Answered => Sound'
<1> SUFFICES ASSUME Sound, Answered PROVE Sound'
  OBVIOUS
<1>1. /\ pc = "redirect" /\ pc' = "done" /\ code' = "SUCCESS"
      /\ UNCHANGED <<meant, source, uri, target, request, message, answered, redirects, over>>
  BY DEF Answered, Return
<1>2. UNCHANGED <<answer, response, location>>
  BY <1>1 DEF answered
<1>3. TypeOK' /\ AsParsed' /\ Unfinished'
  BY <1>1, <1>2 DEF Sound, TypeOK, AsParsed, Unfinished
<1>4. BuffersHold' /\ LeadsWhereItSays'
  BY <1>1, <1>2 DEF Sound, BuffersHold, LeadsWhereItSays
<1> QED
  BY <1>3, <1>4 DEF Sound

LEMMA RedirectKeeps == Sound /\ Redirect => Sound'
<1> SUFFICES ASSUME Sound, Redirect PROVE Sound'
  OBVIOUS
<1> DEFINE loc == LocationOf(response)
           path == FullPath(request.uri, loc)
<1>1. /\ pc = "redirect" /\ location' = loc /\ loc # Null
      /\ UNCHANGED <<uri, target, request, message, answer, response>>
  BY DEF Redirect
<1>2. /\ TypeOK /\ request \in [uri : UriType, host : Texts] /\ request.uri \in UriType
      /\ IsParsed(request.uri) /\ request.host = HostHeader(request.uri) /\ code = "none"
  BY <1>1 DEF Sound, TypeOK, AsParsed, Unfinished
<1>3. loc \in Texts /\ loc # <<>>
  <2>1. response \in ResponseType
    BY <1>2 DEF TypeOK
  <2> QED
    BY <1>1, <2>1, LocationType
<1>4. path \in Texts /\ Length(httpnormpath(path)) <= Length(path) + 1
      /\ Length(httpnormpath(path)) \in Nat /\ Length(path) \in Nat
  BY <1>2, <1>3, FullPathType, NormPathFits, LengthType
<1>5. over' = {} \/ (over' = {"before path"} /\ ~IsAbsolute(loc) /\ BeforeBuffer(path))
  <2>1. Overrun("path", Length(path) + 2, httpnormpath(path)) = {}
    <3>1. ~(Length(httpnormpath(path)) + 1 > Length(path) + 2)
      <4> HIDE DEF path
      <4> QED
        BY <1>4
    <3> QED
      BY <3>1 DEF Overrun
  <2>2. over' = IF ~IsAbsolute(loc) /\ (loc[1] # SLASH \/ OnOwnHost(loc))
                THEN (IF BeforeBuffer(path) THEN {"before path"} ELSE {})
                     \cup Overrun("path", Length(path) + 2, httpnormpath(path))
                ELSE {}
    BY <1>1 DEF Redirect
  <2> HIDE DEF path, loc
  <2> QED
    BY <2>1, <2>2
<1>6. IF IsInvalid(loc)
      THEN /\ pc' = "done" /\ code' = "HTTP_HEADERS_INVALID_LOCATION"
           /\ UNCHANGED <<meant, source, redirects>>
      ELSE /\ source' = Redirected(request, loc)
           /\ meant' = source'
           /\ redirects' = redirects + 1
           /\ IF redirects' > MaxRedirects
              THEN pc' = "done" /\ code' = "HTTP_TOO_MANY_REDIRECTS"
              ELSE pc' = "clean" /\ UNCHANGED code
  BY <1>1 DEF Redirect, Return
<1>7. ~Strays(request.uri, loc) =>
        /\ ~LosesAuthority(request.uri, loc) =>
             ~IsInvalid(loc) /\ Redirected(request, loc) = Resolved(request.uri, loc)
        /\ ~IsAbsolute(loc) => ~BeforeBuffer(path)
  BY <1>2, <1>3, RedirectResolves, NormPathIs
<1>8. Redirected(request, loc) \in Texts
  BY <1>2, <1>3, RedirectedType
<1> HIDE DEF loc, path
<1>9. /\ meant' \in Texts /\ source' \in Texts /\ redirects' \in 0 .. MaxRedirects + 1
      /\ pc' \in {"clean", "done"} /\ (pc' = "clean" => code' = "none" /\ redirects' <= MaxRedirects)
  <2>1. /\ MaxRedirects \in Nat /\ redirects \in 0 .. MaxRedirects + 1
        /\ meant \in Texts /\ source \in Texts
    BY <1>2, RoundAssumption DEF TypeOK
  <2>2. redirects <= MaxRedirects
    BY <1>1 DEF Sound, Unfinished
  <2>3. CASE IsInvalid(loc)
    BY <1>6, <2>1, <2>3
  <2>4. CASE ~IsInvalid(loc)
    BY <1>2, <1>6, <1>8, <2>1, <2>2, <2>4
  <2> QED
    BY <2>3, <2>4
<1>10. TypeOK'
  BY <1>1, <1>2, <1>3, <1>5, <1>9 DEF TypeOK
<1>11. AsParsed' /\ Unfinished'
  BY <1>9 DEF AsParsed, Unfinished
<1>12. BuffersHold'
  <2>1. "path" \notin over' /\ ("before path" \in over' => ~IsAbsolute(loc) /\ Strays(request.uri, loc))
    BY <1>5, <1>7
  <2> QED
    BY <1>1, <1>9, <2>1 DEF BuffersHold
<1>13. LeadsWhereItSays'
  <2> SUFFICES ASSUME ~Strays(request.uri, loc), ~LosesAuthority(request.uri, loc)
               PROVE  /\ code' # "HTTP_HEADERS_INVALID_LOCATION"
                      /\ pc' = "clean" => source' = Resolved(request.uri, loc)
    BY <1>1 DEF LeadsWhereItSays
  <2>1. ~IsInvalid(loc) /\ source' = Resolved(request.uri, loc)
    BY <1>6, <1>7
  <2>2. code' \in {"none", "HTTP_TOO_MANY_REDIRECTS"}
    BY <1>2, <1>6, <2>1
  <2> QED
    BY <2>1, <2>2
<1> QED
  BY <1>10, <1>11, <1>12, <1>13 DEF Sound

-------------------------------------------------------------------------------
(* The parser and the RFC: where the parts are *)

(* The places of Split *)
StartAt(text) == SchemeEnd(text) + 3
TailAt(text)  == Before(text, StartAt(text), {SLASH, QUESTION_MARK, HASHTAG})
UserAt(text)  == Before(text, StartAt(text), {AT, SLASH, QUESTION_MARK, HASHTAG})
HostAt(text)  == IF UserAt(text) < TailAt(text) THEN UserAt(text) + 1 ELSE StartAt(text)
IsV6(text)    == HostAt(text) <= Len(text) /\ text[HostAt(text)] = "["
ColonAt(text) == Before(text, StartAt(text), {COLON, AT})
CloseAt(text) == Before(text, HostAt(text), {"]", SLASH, QUESTION_MARK, HASHTAG})
PortAt(text)  == Min({TailAt(text), Before(text, IF IsV6(text) THEN CloseAt(text) ELSE HostAt(text), {COLON})})
QueryAt(text) == Before(text, TailAt(text), {QUESTION_MARK, HASHTAG})
FragAt(text)  == Before(text, TailAt(text), {HASHTAG})

LEMMA SplitIs ==
    ASSUME NEW text
    PROVE  LET s == Split(text)
           IN  /\ s.username = (IF HostAt(text) = StartAt(text) THEN <<>>
                                ELSE SubSeq(text, StartAt(text), Min({ColonAt(text), UserAt(text)}) - 1))
               /\ s.password = (IF HostAt(text) = StartAt(text) THEN <<>>
                                ELSE SubSeq(text, ColonAt(text) + 1, UserAt(text) - 1))
               /\ s.v6 = IsV6(text) /\ s.closed = (CloseAt(text) < TailAt(text))
               /\ s.host = (IF IsV6(text) THEN SubSeq(text, HostAt(text) + 1, CloseAt(text) - 1)
                            ELSE SubSeq(text, HostAt(text), PortAt(text) - 1))
               /\ s.junk = (IF IsV6(text) THEN SubSeq(text, CloseAt(text) + 1, PortAt(text) - 1) ELSE <<>>)
               /\ s.ported = (PortAt(text) < TailAt(text))
               /\ s.port = SubSeq(text, PortAt(text) + 1, TailAt(text) - 1)
               /\ s.path = SubSeq(text, TailAt(text) + 1, QueryAt(text) - 1)
               /\ s.query = SubSeq(text, QueryAt(text) + 1, FragAt(text) - 1)
               /\ s.fragment = SubSeq(text, FragAt(text) + 1, Len(text))
               /\ s.tail = SubSeq(text, TailAt(text), Len(text))
<1> DEFINE start == StartAt(text)
           tail == TailAt(text)
           at == UserAt(text)
           host == HostAt(text)
<1>1. Split(text) = SplitAt(text, start, tail, at, host)
  BY DEF Split, SplitFrom, SplitBehind, StartAt, TailAt, UserAt, HostAt
<1>2. /\ IsV6(text) = (host <= Len(text) /\ text[host] = "[")
      /\ ColonAt(text) = Before(text, start, {COLON, AT})
      /\ CloseAt(text) = Before(text, host, {"]", SLASH, QUESTION_MARK, HASHTAG})
      /\ PortAt(text) = Min({tail, Before(text, IF IsV6(text) THEN CloseAt(text) ELSE host, {COLON})})
      /\ QueryAt(text) = Before(text, tail, {QUESTION_MARK, HASHTAG})
      /\ FragAt(text) = Before(text, tail, {HASHTAG})
  BY DEF IsV6, ColonAt, CloseAt, PortAt, QueryAt, FragAt
<1> HIDE DEF start, tail, at, host
<1> DEFINE s == Split(text)
           usernameOf == IF host = start THEN <<>> ELSE SubSeq(text, start, Min({ColonAt(text), at}) - 1)
           passwordOf == IF host = start THEN <<>> ELSE SubSeq(text, ColonAt(text) + 1, at - 1)
           v6Of == IsV6(text)
           closedOf == CloseAt(text) < tail
           hostOf == IF IsV6(text) THEN SubSeq(text, host + 1, CloseAt(text) - 1)
                ELSE SubSeq(text, host, PortAt(text) - 1)
           junkOf == IF IsV6(text) THEN SubSeq(text, CloseAt(text) + 1, PortAt(text) - 1) ELSE <<>>
           portedOf == PortAt(text) < tail
           portOf == SubSeq(text, PortAt(text) + 1, tail - 1)
           pathOf == SubSeq(text, tail + 1, QueryAt(text) - 1)
           queryOf == SubSeq(text, QueryAt(text) + 1, FragAt(text) - 1)
           fragmentOf == SubSeq(text, FragAt(text) + 1, Len(text))
           tailOf == SubSeq(text, tail, Len(text))
<1>3. s = [username |-> usernameOf,
           password |-> passwordOf,
           v6 |-> v6Of,
           closed |-> closedOf,
           host |-> hostOf,
           junk |-> junkOf,
           ported |-> portedOf,
           port |-> portOf,
           path |-> pathOf,
           query |-> queryOf,
           fragment |-> fragmentOf,
           tail |-> tailOf]
  BY <1>1, <1>2, Zenon DEF SplitAt
<1> HIDE DEF s, usernameOf, passwordOf, v6Of, closedOf, hostOf, junkOf, portedOf, portOf, pathOf, queryOf, fragmentOf, tailOf
<1>4. /\ s.username = usernameOf
      /\ s.password = passwordOf
      /\ s.v6 = v6Of
      /\ s.closed = closedOf
      /\ s.host = hostOf
      /\ s.junk = junkOf
      /\ s.ported = portedOf
      /\ s.port = portOf
      /\ s.path = pathOf
      /\ s.query = queryOf
      /\ s.fragment = fragmentOf
      /\ s.tail = tailOf
  BY <1>3
<1> QED
  BY <1>4, Zenon DEF s, start, tail, at, host, usernameOf, passwordOf, v6Of, closedOf, hostOf, junkOf, portedOf, portOf, pathOf, queryOf, fragmentOf, tailOf

(* Where they are *)
LEMMA SplitPlaces ==
    ASSUME NEW text \in Texts, SchemeEnd(text) # 0
    PROVE  LET start == StartAt(text)
               tail == TailAt(text)
               at == UserAt(text)
           IN  /\ Len(text) \in Nat /\ start \in 1 .. Len(text) + 1
               /\ tail \in start .. Len(text) + 1
               /\ tail <= Len(text) => text[tail] \in {SLASH, QUESTION_MARK, HASHTAG}
               /\ \A k \in start .. tail - 1 : text[k] \notin {SLASH, QUESTION_MARK, HASHTAG}
               /\ at \in start .. tail
               /\ at # tail => text[at] = AT
               /\ \A k \in start .. at - 1 : text[k] # AT
               /\ HostAt(text) \in start .. tail
<1> DEFINE start == StartAt(text)
           tail == TailAt(text)
           at == UserAt(text)
<1>1. Len(text) \in Nat /\ start \in 1 .. Len(text) + 1
  <2>1. SchemeEnd(text) \in 1 .. Len(text) - 2 /\ Len(text) \in Nat
    BY SchemeFound, TextFacts
  <2> QED
    BY <2>1 DEF StartAt
<1>2. /\ tail \in start .. Len(text) + 1
      /\ tail <= Len(text) => text[tail] \in {SLASH, QUESTION_MARK, HASHTAG}
      /\ \A k \in start .. tail - 1 : text[k] \notin {SLASH, QUESTION_MARK, HASHTAG}
  BY <1>1, FoundBefore DEF TailAt
<1>3. /\ at \in start .. Len(text) + 1
      /\ at <= Len(text) => text[at] \in {AT, SLASH, QUESTION_MARK, HASHTAG}
      /\ \A k \in start .. at - 1 : text[k] \notin {AT, SLASH, QUESTION_MARK, HASHTAG}
  BY <1>1, FoundBefore DEF UserAt
<1> DEFINE host == HostAt(text)
<1>4. host = IF at < tail THEN at + 1 ELSE start
  BY DEF HostAt
<1> HIDE DEF start, tail, at, host
<1>5. at \in start .. tail
  <2> SUFFICES ASSUME at > tail PROVE FALSE
    BY <1>1, <1>2, <1>3
  <2>1. tail \in start .. at - 1 /\ tail <= Len(text)
    BY <1>1, <1>2, <1>3
  <2> QED
    BY <1>2, <1>3, <2>1
<1>6. at # tail => text[at] = AT
  <2> SUFFICES ASSUME at # tail PROVE text[at] = AT
    OBVIOUS
  <2>1. at \in start .. tail - 1 /\ at <= Len(text)
    BY <1>1, <1>2, <1>5
  <2> QED
    BY <1>2, <1>3, <2>1
<1>7. host \in start .. tail
  BY <1>1, <1>2, <1>4, <1>5
<1> QED
  BY <1>1, <1>2, <1>3, <1>5, <1>6, <1>7 DEF start, tail, at, host

LEMMA TailPlaces ==
    ASSUME NEW text \in Texts, SchemeEnd(text) # 0
    PROVE  LET tail == TailAt(text)
               query == QueryAt(text)
               frag == FragAt(text)
           IN  /\ tail \in 1 .. Len(text) + 1
               /\ frag \in tail .. Len(text) + 1 /\ query \in tail .. frag
               /\ frag <= Len(text) => text[frag] = HASHTAG
               /\ \A k \in tail .. frag - 1 : text[k] # HASHTAG
               /\ query # frag => text[query] = QUESTION_MARK
               /\ \A k \in tail .. query - 1 : text[k] # QUESTION_MARK
<1> DEFINE tail == TailAt(text)
           query == QueryAt(text)
           frag == FragAt(text)
<1>1. Len(text) \in Nat /\ tail \in 1 .. Len(text) + 1
  <2>1. /\ Len(text) \in Nat /\ StartAt(text) \in 1 .. Len(text) + 1
        /\ TailAt(text) \in StartAt(text) .. Len(text) + 1
    BY SplitPlaces
  <2> HIDE DEF tail
  <2> QED
    BY <2>1 DEF tail
<1>2. /\ frag \in tail .. Len(text) + 1
      /\ frag <= Len(text) => text[frag] \in {HASHTAG}
      /\ \A k \in tail .. frag - 1 : text[k] \notin {HASHTAG}
  BY <1>1, FoundBefore DEF FragAt
<1>3. /\ query \in tail .. Len(text) + 1
      /\ query <= Len(text) => text[query] \in {QUESTION_MARK, HASHTAG}
      /\ \A k \in tail .. query - 1 : text[k] \notin {QUESTION_MARK, HASHTAG}
  BY <1>1, FoundBefore DEF QueryAt
<1> HIDE DEF tail, query, frag
<1>4. query \in tail .. frag
  <2> SUFFICES ASSUME query > frag PROVE FALSE
    BY <1>1, <1>2, <1>3
  <2>1. frag \in tail .. query - 1 /\ frag <= Len(text)
    BY <1>1, <1>2, <1>3
  <2> QED
    BY <1>2, <1>3, <2>1
<1>5. query # frag => text[query] = QUESTION_MARK
  <2> SUFFICES ASSUME query # frag PROVE text[query] = QUESTION_MARK
    OBVIOUS
  <2>1. query \in tail .. frag - 1 /\ query <= Len(text)
    BY <1>1, <1>2, <1>4
  <2> QED
    BY <1>2, <1>3, <2>1
<1> QED
  BY <1>1, <1>2, <1>3, <1>4, <1>5 DEF tail, query, frag

(* What is not misplaced *)
InTail(text, c) == \E k \in TailAt(text) .. Len(text) : text[k] = c
Bare(text)      == TailAt(text) > Len(text) \/ text[TailAt(text)] # SLASH
Queried(text)   == \E k \in TailAt(text) .. FragAt(text) - 1 : text[k] = QUESTION_MARK

LEMMA InPlace ==
    ASSUME NEW text \in Texts, SchemeEnd(text) # 0, ~Departs(text)
    PROVE  LET s == Split(text)
           IN  /\ ~InTail(text, AT)
               /\ Bare(text) => ~InTail(text, SLASH)
               /\ ~Queried(text) => ~InTail(text, QUESTION_MARK)
               /\ ~Queried(text) /\ ~Bare(text) => ~InTail(text, HASHTAG)
               /\ Queried(text) /\ Bare(text) => ~s.ported
               /\ s.junk = <<>>
               /\ ~(IsNumeric(s.port) /\ Number(s.port) >= IntSpan)
<1> DEFINE s == Split(text)
           t == s.tail
           a == TailAt(text)
           n == Len(text)
           f == FragAt(text)
<1>1. /\ n \in Nat /\ a \in 1 .. n + 1 /\ f \in a .. n + 1
      /\ f <= n => text[f] = HASHTAG
      /\ \A k \in a .. f - 1 : text[k] # HASHTAG
  BY TailPlaces, TextFacts
<1>2. t = SubSeq(text, a, n)
  BY SplitIs
<1>3. ~Misplaced(s)
  BY DEF Departs
<1> HIDE DEF s, t, a, n, f
<1>4. t \in Texts /\ Len(t) = (n - a) + 1 /\ \A k \in 1 .. (n - a) + 1 : t[k] = text[(a + k) - 1]
  <2>1. a \in Nat \ {0} /\ n \in Int /\ n <= Len(text)
    BY <1>1 DEF n
  <2>2. /\ t \in Texts /\ Len(t) = (IF a <= n THEN n - a + 1 ELSE 0)
        /\ \A k \in 1 .. n - a + 1 : t[k] = text[a + k - 1]
    BY <1>2, <2>1, Sub
  <2>3. Len(t) = (n - a) + 1
    BY <1>1, <2>2
  <2>4. \A k \in 1 .. (n - a) + 1 : a + k - 1 = (a + k) - 1 /\ k \in 1 .. n - a + 1
    BY <1>1
  <2> QED
    BY <2>2, <2>3, <2>4
<1>5. \A c : c \in ToSet(t) <=> \E k \in a .. n : text[k] = c
  <2> TAKE c
  <2>1. c \in ToSet(t) <=> \E k \in 1 .. Len(t) : t[k] = c
    BY <1>4, TextFacts DEF ToSet
  <2>2. ASSUME NEW k \in 1 .. Len(t), t[k] = c PROVE \E j \in a .. n : text[j] = c
    <3>1. (a + k) - 1 \in a .. n /\ k \in 1 .. (n - a) + 1
      BY <1>1, <1>4
    <3>2. text[(a + k) - 1] = c
      BY <1>4, <2>2, <3>1
    <3> QED
      BY <3>1, <3>2
  <2>3. ASSUME NEW j \in a .. n, text[j] = c PROVE \E k \in 1 .. Len(t) : t[k] = c
    <3> DEFINE k == (j - a) + 1
    <3>1. k \in 1 .. (n - a) + 1 /\ k \in 1 .. Len(t) /\ (a + k) - 1 = j
      BY <1>1, <1>4
    <3> HIDE DEF k
    <3>2. t[k] = c
      BY <1>4, <2>3, <3>1
    <3> QED
      BY <3>1, <3>2
  <2> QED
    BY <2>1, <2>2, <2>3
<1>6. (t = <<>> \/ t[1] # SLASH) <=> Bare(text)
  <2>1. t = <<>> <=> a > n
    <3>1. t = <<>> <=> Len(t) = 0
      BY <1>4 DEF Texts
    <3> QED
      BY <1>1, <1>4, <3>1
  <2>2. a <= n => t[1] = text[a]
    <3> SUFFICES ASSUME a <= n PROVE t[1] = text[a]
      OBVIOUS
    <3>1. 1 \in 1 .. (n - a) + 1 /\ (a + 1) - 1 = a
      BY <1>1
    <3> QED
      BY <1>4, <3>1
  <2>3. a \in Int /\ n \in Int
    BY <1>1
  <2> HIDE DEF t
  <2>4. Bare(text) <=> (a > n \/ text[a] # SLASH)
    BY DEF Bare, a, n
  <2>5. a > n \/ a <= n
    BY <2>3
  <2> QED
    BY <2>1, <2>2, <2>3, <2>4, <2>5
<1> DEFINE b == Before(t, 1, {HASHTAG})
<1>7. b = (f - a) + 1
  <2>1. 1 \in 1 .. Len(t) + 1 /\ (f - a) + 1 \in 1 .. Len(t) + 1
    BY <1>1, <1>4
  <2>2. (f - a) + 1 <= Len(t) => t[(f - a) + 1] \in {HASHTAG}
    <3> SUFFICES ASSUME (f - a) + 1 <= Len(t) PROVE t[(f - a) + 1] = HASHTAG
      OBVIOUS
    <3>1. (f - a) + 1 \in 1 .. (n - a) + 1 /\ (a + ((f - a) + 1)) - 1 = f /\ f <= n
      BY <1>1, <1>4
    <3> QED
      BY <1>1, <1>4, <3>1
  <2>3. \A k \in 1 .. ((f - a) + 1) - 1 : t[k] \notin {HASHTAG}
    <3> TAKE k \in 1 .. ((f - a) + 1) - 1
    <3>1. k \in 1 .. (n - a) + 1 /\ (a + k) - 1 \in a .. f - 1
      BY <1>1
    <3> QED
      BY <1>1, <1>4, <3>1
  <2> QED
    BY <1>4, <2>1, <2>2, <2>3, BeforeIs
<1>8. QUESTION_MARK \in ToSet(SubSeq(t, 1, b - 1)) <=> Queried(text)
  <2> DEFINE q == SubSeq(t, 1, f - a)
  <2>0. b - 1 = f - a
    BY <1>1, <1>7
  <2>1. 1 \in Nat \ {0} /\ f - a \in Int /\ f - a <= Len(t)
    BY <1>1, <1>4
  <2>2. /\ q \in Texts /\ Len(q) = (IF 1 <= f - a THEN (f - a) - 1 + 1 ELSE 0)
        /\ \A k \in 1 .. (f - a) - 1 + 1 : q[k] = t[1 + k - 1]
    BY <1>4, <2>1, Sub
  <2> HIDE DEF q
  <2>3. Len(q) = f - a /\ \A k \in 1 .. f - a : q[k] = text[(a + k) - 1]
    <3>1. Len(q) = f - a
      BY <1>1, <2>2
    <3>2. ASSUME NEW k \in 1 .. f - a PROVE q[k] = text[(a + k) - 1]
      <4>1. k \in 1 .. (f - a) - 1 + 1 /\ 1 + k - 1 = k /\ k \in 1 .. (n - a) + 1
        BY <1>1
      <4>2. q[k] = t[1 + k - 1]
        BY <2>2, <4>1
      <4>3. t[k] = text[(a + k) - 1]
        BY <1>4, <4>1
      <4> QED
        BY <4>1, <4>2, <4>3
    <3> QED
      BY <3>1, <3>2
  <2>4. QUESTION_MARK \in ToSet(q) <=> \E k \in 1 .. f - a : q[k] = QUESTION_MARK
    BY <2>2, <2>3, TextFacts DEF ToSet
  <2>5. ASSUME NEW k \in 1 .. f - a, q[k] = QUESTION_MARK PROVE Queried(text)
    <3>1. (a + k) - 1 \in a .. f - 1 /\ text[(a + k) - 1] = QUESTION_MARK
      BY <1>1, <2>3, <2>5
    <3> QED
      BY <3>1 DEF Queried, a, f
  <2>6. ASSUME NEW j \in a .. f - 1, text[j] = QUESTION_MARK PROVE \E k \in 1 .. f - a : q[k] = QUESTION_MARK
    <3> DEFINE k == (j - a) + 1
    <3>1. k \in 1 .. f - a /\ (a + k) - 1 = j
      BY <1>1
    <3> HIDE DEF k
    <3>2. q[k] = QUESTION_MARK
      BY <2>3, <2>6, <3>1
    <3> QED
      BY <3>1, <3>2
  <2>7. Queried(text) <=> \E j \in a .. f - 1 : text[j] = QUESTION_MARK
    BY DEF Queried, a, f
  <2> QED
    BY <2>0, <2>4, <2>5, <2>6, <2>7 DEF q
<1>9. \A c : c \in ToSet(t) <=> InTail(text, c)
  BY <1>5 DEF InTail, a, n
<1> HIDE DEF b
<1>10. /\ AT \notin ToSet(t)
       /\ ~((t = <<>> \/ t[1] # SLASH) /\ SLASH \in ToSet(t))
       /\ ~(QUESTION_MARK \notin ToSet(SubSeq(t, 1, b - 1)) /\ QUESTION_MARK \in ToSet(t))
       /\ ~(QUESTION_MARK \notin ToSet(SubSeq(t, 1, b - 1)) /\ ~(t = <<>> \/ t[1] # SLASH) /\ HASHTAG \in ToSet(t))
       /\ ~(QUESTION_MARK \in ToSet(SubSeq(t, 1, b - 1)) /\ (t = <<>> \/ t[1] # SLASH) /\ s.ported)
       /\ s.junk = <<>> /\ ~(IsNumeric(s.port) /\ Number(s.port) >= IntSpan)
  BY <1>3, Zenon DEF Misplaced, t, b
<1> QED
  BY <1>6, <1>8, <1>9, <1>10, Zenon DEF s

-------------------------------------------------------------------------------
(* The parser and the RFC: what the parser finds there *)

(* What Find finds is the only place that is the first *)
LEMMA FindIs ==
    ASSUME NEW text \in Texts, NEW c, NEW from \in Nat \ {0}, NEW f \in 0 .. Len(text),
           f = 0 => \A k \in from .. Len(text) : text[k] # c,
           f # 0 => /\ f >= from /\ text[f] = c
                    /\ \A k \in from .. f - 1 : text[k] # c
    PROVE  Find(c, text, from) = f
<1> DEFINE g == Find(c, text, from)
<1>1. Len(text) \in Nat
  BY TextFacts
<1>2. /\ g \in 0 .. Len(text)
      /\ g = 0 => \A k \in from .. Len(text) : text[k] # c
      /\ g # 0 => /\ g \in from .. Len(text) /\ text[g] = c
                  /\ \A k \in from .. g - 1 : text[k] # c
  BY Found
<1> HIDE DEF g
<1>3. ASSUME f # 0 PROVE g # 0 /\ ~(f < g)
  <2>1. f \in from .. Len(text)
    BY <1>1, <1>3
  <2>2. f < g => f \in from .. g - 1
    BY <1>1, <1>2, <2>1
  <2> QED
    BY <1>2, <1>3, <2>1, <2>2
<1>4. ASSUME g # 0 PROVE f # 0 /\ ~(g < f)
  <2>1. g < f => g \in from .. f - 1
    BY <1>1, <1>2, <1>4
  <2> QED
    BY <1>2, <1>4, <2>1
<1>5. g = f
  BY <1>1, <1>2, <1>3, <1>4
<1> QED
  BY <1>5 DEF g

(* The user, and where the host starts *)
LEMMA UserPlace ==
    ASSUME NEW text \in Texts, SchemeEnd(text) # 0, ~Departs(text)
    PROVE  LET p == Places(text)
           IN  /\ p.start = StartAt(text) /\ p.host = HostAt(text)
               /\ UserAt(text) < TailAt(text) => p.at = UserAt(text) /\ HostAt(text) = UserAt(text) + 1
               /\ UserAt(text) >= TailAt(text) => p.at = 0 /\ HostAt(text) = StartAt(text)
               /\ p.at = 0 <=> HostAt(text) = StartAt(text)
<1> DEFINE p == Places(text)
           n == Len(text)
           start == StartAt(text)
           tail == TailAt(text)
           at == UserAt(text)
           host == HostAt(text)
<1>1. /\ n \in Nat /\ start \in 1 .. n + 1 /\ tail \in start .. n + 1
      /\ at \in start .. tail
      /\ at # tail => text[at] = AT
      /\ \A k \in start .. at - 1 : text[k] # AT
  BY SplitPlaces
<1>2. p.start = start /\ p.at = Find(AT, text, start) /\ p.host = IF p.at = 0 THEN start ELSE p.at + 1
  BY PlacesAre DEF StartAt
<1>3. \A k \in tail .. n : text[k] # AT
  BY InPlace DEF InTail
<1>4. host = IF at < tail THEN at + 1 ELSE start
  BY DEF HostAt
<1> HIDE DEF p, n, start, tail, at, host
<1>5. CASE at < tail
  <2>1. at \in 0 .. n /\ at # 0 /\ at >= start /\ start \in Nat \ {0} /\ text[at] = AT
    BY <1>1, <1>5
  <2>2. Find(AT, text, start) = at
    BY <1>1, <2>1, FindIs DEF n
  <2>3. host = at + 1 /\ host # start
    BY <1>1, <1>4, <1>5
  <2>4. p.at = at /\ p.host = host
    BY <1>2, <2>1, <2>2, <2>3
  <2>5. ~(at >= tail)
    BY <1>1, <1>5
  <2> QED
    BY <1>2, <2>1, <2>3, <2>4, <2>5 DEF p, n, start, tail, at, host
<1>6. CASE ~(at < tail)
  <2>1. at = tail
    BY <1>1, <1>6
  <2>2. start \in Nat \ {0} /\ 0 \in 0 .. n
    BY <1>1
  <2>3. \A k \in start .. n : text[k] # AT
    <3> TAKE k \in start .. n
    <3>1. k \in start .. at - 1 \/ k \in tail .. n
      BY <1>1, <2>1
    <3> QED
      BY <1>1, <1>3, <3>1
  <2>4. Find(AT, text, start) = 0
    BY <2>2, <2>3, FindIs DEF n
  <2>5. p.at = 0 /\ p.host = host /\ host = start
    BY <1>2, <1>4, <1>6, <2>4
  <2> QED
    BY <1>2, <1>6, <2>5 DEF p, n, start, tail, at, host
<1> QED
  BY <1>5, <1>6

(* What the parser finds of the path, the query and the fragment *)
LEMMA TailFound ==
    ASSUME NEW text \in Texts, SchemeEnd(text) # 0, ~Departs(text)
    PROVE  LET p == Places(text)
           IN  /\ p.path = (IF Bare(text) THEN 0 ELSE TailAt(text))
               /\ p.query = (IF Queried(text) THEN QueryAt(text) ELSE 0)
               /\ p.fragment = (IF FragAt(text) <= Len(text) THEN FragAt(text) ELSE 0)
<1> DEFINE p == Places(text)
           n == Len(text)
           host == HostAt(text)
           tail == TailAt(text)
           query == QueryAt(text)
           frag == FragAt(text)
<1>1. /\ n \in Nat /\ host \in 1 .. n + 1 /\ host <= tail
      /\ tail \in 1 .. n + 1
      /\ \A k \in host .. tail - 1 : text[k] \notin {SLASH, QUESTION_MARK, HASHTAG}
  <2> DEFINE start == StartAt(text)
  <2>1. /\ n \in Nat /\ start \in 1 .. n + 1
        /\ tail \in start .. n + 1 /\ host \in start .. tail
        /\ \A k \in start .. tail - 1 : text[k] \notin {SLASH, QUESTION_MARK, HASHTAG}
    BY SplitPlaces
  <2> HIDE DEF n, start, host, tail
  <2>2. \A k \in host .. tail - 1 : k \in start .. tail - 1
    BY <2>1
  <2> QED
    BY <2>1, <2>2
<1>2. /\ frag \in tail .. n + 1 /\ query \in tail .. frag
      /\ frag <= n => text[frag] = HASHTAG
      /\ \A k \in tail .. frag - 1 : text[k] # HASHTAG
      /\ query # frag => text[query] = QUESTION_MARK
      /\ \A k \in tail .. query - 1 : text[k] # QUESTION_MARK
  BY TailPlaces
<1>3. /\ p.path = Find(SLASH, text, host) /\ p.query = Find(QUESTION_MARK, text, host)
      /\ p.fragment = Find(HASHTAG, text, host)
  BY PlacesAre, UserPlace
<1>4. /\ Bare(text) => \A k \in tail .. n : text[k] # SLASH
      /\ ~Queried(text) => \A k \in tail .. n : text[k] # QUESTION_MARK
      /\ Bare(text) <=> tail > n \/ text[tail] # SLASH
      /\ Queried(text) <=> \E k \in tail .. frag - 1 : text[k] = QUESTION_MARK
  BY InPlace DEF InTail, Bare, Queried
<1> HIDE DEF p, n, host, tail, query, frag
<1>5. ASSUME NEW c \in {SLASH, QUESTION_MARK, HASHTAG}, NEW f \in tail .. n,
             text[f] = c, \A k \in tail .. f - 1 : text[k] # c
      PROVE  Find(c, text, host) = f
  <2>1. f \in 0 .. n /\ f # 0 /\ f >= host /\ host \in Nat \ {0}
    BY <1>1
  <2>2. \A k \in host .. f - 1 : text[k] # c
    <3> TAKE k \in host .. f - 1
    <3>1. k \in host .. tail - 1 \/ k \in tail .. f - 1
      BY <1>1
    <3> QED
      BY <1>1, <1>5, <3>1
  <2> QED
    BY <1>5, <2>1, <2>2, FindIs DEF n
<1>6. ASSUME NEW c \in {SLASH, QUESTION_MARK, HASHTAG}, \A k \in tail .. n : text[k] # c
      PROVE  Find(c, text, host) = 0
  <2>1. 0 \in 0 .. n /\ host \in Nat \ {0}
    BY <1>1
  <2>2. \A k \in host .. n : text[k] # c
    <3> TAKE k \in host .. n
    <3>1. k \in host .. tail - 1 \/ k \in tail .. n
      BY <1>1
    <3> QED
      BY <1>1, <1>6, <3>1
  <2> QED
    BY <2>1, <2>2, FindIs DEF n
<1>7. p.path = IF Bare(text) THEN 0 ELSE tail
  <2>1. CASE Bare(text)
    BY <1>3, <1>4, <1>6, <2>1
  <2>2. CASE ~Bare(text)
    <3>1. tail \in tail .. n /\ text[tail] = SLASH /\ \A k \in tail .. tail - 1 : text[k] # SLASH
      BY <1>1, <1>4, <2>2
    <3> QED
      BY <1>3, <1>5, <2>2, <3>1
  <2> QED
    BY <2>1, <2>2
<1>8. p.query = IF Queried(text) THEN query ELSE 0
  <2>1. CASE Queried(text)
    <3>1. PICK k \in tail .. frag - 1 : text[k] = QUESTION_MARK
      BY <1>4, <2>1
    <3>2. query # frag
      <4> SUFFICES ASSUME query = frag PROVE FALSE
        OBVIOUS
      <4>1. k \in tail .. query - 1
        BY <3>1
      <4> QED
        BY <1>2, <3>1, <4>1
    <3>3. query \in tail .. n
      BY <1>1, <1>2, <3>2
    <3> QED
      BY <1>2, <1>3, <1>5, <2>1, <3>2, <3>3
  <2>2. CASE ~Queried(text)
    BY <1>3, <1>4, <1>6, <2>2
  <2> QED
    BY <2>1, <2>2
<1>9. p.fragment = IF frag <= n THEN frag ELSE 0
  <2>1. CASE frag <= n
    <3>1. frag \in tail .. n
      BY <1>1, <1>2, <2>1
    <3> QED
      BY <1>2, <1>3, <1>5, <2>1, <3>1
  <2>2. CASE ~(frag <= n)
    <3>1. \A k \in tail .. n : k \in tail .. frag - 1
      BY <1>1, <1>2, <2>2
    <3>2. \A k \in tail .. n : text[k] # HASHTAG
      BY <1>2, <3>1
    <3> QED
      BY <1>3, <1>6, <2>2, <3>2
  <2> QED
    BY <2>1, <2>2
<1> QED
  BY <1>7, <1>8, <1>9 DEF p, n, tail, query, frag

-------------------------------------------------------------------------------
(* The parser and the RFC: path, query and fragment *)

LEMMA TailCases ==
    ASSUME NEW text \in Texts, SchemeEnd(text) # 0, ~Departs(text)
    PROVE  LET n == Len(text)
               tail == TailAt(text)
               query == QueryAt(text)
               frag == FragAt(text)
           IN  /\ n \in Nat /\ tail \in 1 .. n + 1 /\ frag \in tail .. n + 1 /\ query \in tail .. frag
               /\ Bare(text) => query = tail
               /\ Bare(text) /\ ~Queried(text) => frag = tail
               /\ ~Bare(text) => tail <= n /\ query > tail
               /\ Queried(text) => query < frag
               /\ ~Queried(text) => query = frag
               /\ ~Queried(text) /\ ~Bare(text) => frag = n + 1
<1> DEFINE n == Len(text)
           tail == TailAt(text)
           query == QueryAt(text)
           frag == FragAt(text)
<1>1. n \in Nat /\ tail \in 1 .. n + 1
  BY TailPlaces, TextFacts
<1>2. /\ frag \in tail .. n + 1 /\ query \in tail .. frag
      /\ frag <= n => text[frag] = HASHTAG
      /\ \A k \in tail .. frag - 1 : text[k] # HASHTAG
      /\ query # frag => text[query] = QUESTION_MARK
      /\ \A k \in tail .. query - 1 : text[k] # QUESTION_MARK
  BY TailPlaces
<1>3. /\ ~Queried(text) /\ ~Bare(text) => \A k \in tail .. n : text[k] # HASHTAG
      /\ Bare(text) <=> tail > n \/ text[tail] # SLASH
      /\ Queried(text) <=> \E k \in tail .. frag - 1 : text[k] = QUESTION_MARK
  BY InPlace DEF InTail, Bare, Queried
<1>4. tail <= n => text[tail] \in {SLASH, QUESTION_MARK, HASHTAG}
  BY SplitPlaces
<1> HIDE DEF n, tail, query, frag
<1>5. Queried(text) => query < frag
  <2> SUFFICES ASSUME Queried(text), query = frag PROVE FALSE
    BY <1>1, <1>2
  <2>1. PICK k \in tail .. frag - 1 : text[k] = QUESTION_MARK
    BY <1>3
  <2> QED
    BY <1>2, <2>1
<1>6. ~Queried(text) => query = frag
  <2> SUFFICES ASSUME query # frag PROVE Queried(text)
    OBVIOUS
  <2>1. query \in tail .. frag - 1 /\ text[query] = QUESTION_MARK
    BY <1>1, <1>2
  <2> QED
    BY <1>3, <2>1
<1>7. Bare(text) => query = tail
  <2> SUFFICES ASSUME Bare(text), query # tail PROVE FALSE
    OBVIOUS
  <2>1. tail \in tail .. query - 1 /\ tail \in tail .. frag - 1 /\ tail <= n
    BY <1>1, <1>2
  <2>2. text[tail] # QUESTION_MARK /\ text[tail] # HASHTAG /\ text[tail] # SLASH
    BY <1>1, <1>2, <1>3, <2>1
  <2> QED
    BY <1>4, <2>1, <2>2
<1>8. ~Bare(text) => tail <= n /\ query > tail
  <2> SUFFICES ASSUME ~Bare(text) PROVE tail <= n /\ query > tail
    OBVIOUS
  <2>1. tail <= n /\ text[tail] = SLASH
    BY <1>1, <1>3
  <2>2. text[tail] # QUESTION_MARK /\ text[tail] # HASHTAG
    BY <2>1 DEF SLASH, QUESTION_MARK, HASHTAG
  <2>3. frag # tail
    BY <1>2, <2>1, <2>2
  <2>4. query # tail
    BY <1>2, <2>2, <2>3
  <2> QED
    BY <1>1, <1>2, <2>1, <2>4
<1>9. ~Queried(text) /\ ~Bare(text) => frag = n + 1
  <2> SUFFICES ASSUME ~Queried(text), ~Bare(text), frag # n + 1 PROVE FALSE
    OBVIOUS
  <2>1. frag \in tail .. n /\ frag <= n
    BY <1>1, <1>2
  <2> QED
    BY <1>2, <1>3, <2>1
<1> QED
  BY <1>1, <1>2, <1>5, <1>6, <1>7, <1>8, <1>9 DEF n, tail, query, frag

(* Where the parser takes the port and the host to end *)
LEMMA EndPlaces ==
    ASSUME NEW text \in Texts, SchemeEnd(text) # 0, ~Departs(text)
    PROVE  LET p == Places(text)
           IN  /\ PortEnd(text, p) = IF Bare(text) /\ Queried(text) THEN 0 ELSE TailAt(text)
               /\ Or(p.path, Or(p.query, Or(p.fragment, Len(text) + 1))) = TailAt(text)
<1> DEFINE p == Places(text)
           n == Len(text)
           tail == TailAt(text)
           query == QueryAt(text)
           frag == FragAt(text)
<1>1. /\ n \in Nat /\ tail \in 1 .. n + 1 /\ frag \in tail .. n + 1 /\ query \in tail .. frag
      /\ Bare(text) => query = tail
      /\ Bare(text) /\ ~Queried(text) => frag = tail
  BY TailCases
<1>2. /\ p.path = (IF Bare(text) THEN 0 ELSE tail)
      /\ p.query = (IF Queried(text) THEN query ELSE 0)
      /\ p.fragment = (IF frag <= n THEN frag ELSE 0)
  BY TailFound
<1>3. PortEnd(text, p) = IF p.path # 0 THEN p.path ELSE IF p.query # 0 THEN 0 ELSE Or(p.fragment, n + 1)
  BY DEF PortEnd
<1> HIDE DEF p, n, tail, query, frag
<1>4. tail # 0 /\ query # 0 /\ frag # 0 /\ (~(frag <= n) => frag = n + 1)
  BY <1>1
<1>5. Or(p.fragment, n + 1) = frag
  BY <1>2, <1>4 DEF Or
<1>6. PortEnd(text, p) = IF Bare(text) /\ Queried(text) THEN 0 ELSE tail
  BY <1>1, <1>2, <1>3, <1>4, <1>5
<1>7. Or(p.path, Or(p.query, Or(p.fragment, n + 1))) = tail
  BY <1>1, <1>2, <1>4, <1>5 DEF Or
<1> QED
  BY <1>6, <1>7 DEF p, n, tail

(* The parts behind the host are the same, and no size wraps *)
LEMMA TailParts ==
    ASSUME NEW text \in Texts, SchemeEnd(text) # 0, ~Departs(text)
    PROVE  LET p == Places(text)
               s == Split(text)
           IN  /\ PartAfter(text, p.path, PathEnd(text, p)) = OrNull(s.path)
               /\ PartAfter(text, p.query, QueryEnd(text, p)) = OrNull(s.query)
               /\ PartAfter(text, p.fragment, Len(text)) = OrNull(s.fragment)
               /\ p.query # 0 => ~(QueryEnd(text, p) < p.query)
               /\ p.path # 0 => ~(PathEnd(text, p) < p.path)
<1> DEFINE p == Places(text)
           s == Split(text)
           n == Len(text)
           tail == TailAt(text)
           query == QueryAt(text)
           frag == FragAt(text)
<1>1. /\ n \in Nat /\ tail \in 1 .. n + 1 /\ frag \in tail .. n + 1 /\ query \in tail .. frag
      /\ Bare(text) => query = tail
      /\ ~Bare(text) => tail <= n /\ query > tail
      /\ Queried(text) => query < frag
      /\ ~Queried(text) => query = frag
      /\ ~Queried(text) /\ ~Bare(text) => frag = n + 1
  BY TailCases
<1>2. /\ p.path = (IF Bare(text) THEN 0 ELSE tail)
      /\ p.query = (IF Queried(text) THEN query ELSE 0)
      /\ p.fragment = (IF frag <= n THEN frag ELSE 0)
  BY TailFound
<1>3. /\ s.path = SubSeq(text, tail + 1, query - 1)
      /\ s.query = SubSeq(text, query + 1, frag - 1)
      /\ s.fragment = SubSeq(text, frag + 1, n)
  BY SplitIs
<1>4. /\ QueryEnd(text, p) = (IF p.fragment = 0 THEN n ELSE p.fragment - 1)
      /\ PathEnd(text, p) = (IF p.query = 0 THEN n ELSE p.query - 1)
  BY DEF QueryEnd, PathEnd
<1>5. \A place, last : PartAfter(text, place, last) =
                         IF place = 0 THEN Null ELSE OrNull(SubSeq(text, place + 1, last))
  BY DEF PartAfter
<1>6. OrNull(<<>>) = Null
  BY DEF OrNull
<1>7. \A i, j \in Int : i > j => SubSeq(text, i, j) = <<>>
  BY SubSeqEmpty
<1> HIDE DEF p, s, n, tail, query, frag
<1>8. QueryEnd(text, p) = frag - 1
  BY <1>1, <1>2, <1>4
<1>9. PartAfter(text, p.path, PathEnd(text, p)) = OrNull(s.path)
  <2>1. CASE Bare(text)
    <3>1. tail + 1 \in Int /\ query - 1 \in Int /\ tail + 1 > query - 1
      BY <1>1, <2>1
    <3> QED
      BY <1>2, <1>3, <1>5, <1>6, <1>7, <2>1, <3>1
  <2>2. CASE ~Bare(text)
    <3>1. PathEnd(text, p) = query - 1 /\ tail # 0
      BY <1>1, <1>2, <1>4, <2>2
    <3> QED
      BY <1>2, <1>3, <1>5, <2>2, <3>1
  <2> QED
    BY <2>1, <2>2
<1>10. PartAfter(text, p.query, QueryEnd(text, p)) = OrNull(s.query)
  <2>1. CASE ~Queried(text)
    <3>1. query + 1 \in Int /\ frag - 1 \in Int /\ query + 1 > frag - 1
      BY <1>1, <2>1
    <3> QED
      BY <1>2, <1>3, <1>5, <1>6, <1>7, <2>1, <3>1
  <2>2. CASE Queried(text)
    <3>1. query # 0
      BY <1>1
    <3> QED
      BY <1>2, <1>3, <1>5, <1>8, <2>2, <3>1
  <2> QED
    BY <2>1, <2>2
<1>11. PartAfter(text, p.fragment, n) = OrNull(s.fragment)
  <2>1. CASE frag > n
    <3>1. frag + 1 \in Int /\ n \in Int /\ frag + 1 > n /\ ~(frag <= n)
      BY <1>1, <2>1
    <3> QED
      BY <1>2, <1>3, <1>5, <1>6, <1>7, <3>1
  <2>2. CASE frag <= n
    <3>1. frag # 0
      BY <1>1
    <3> QED
      BY <1>2, <1>3, <1>5, <2>2, <3>1
  <2> QED
    BY <1>1, <2>1, <2>2
<1>12. p.query # 0 => ~(QueryEnd(text, p) < p.query)
  BY <1>1, <1>2, <1>8
<1>13. p.path # 0 => ~(PathEnd(text, p) < p.path)
  BY <1>1, <1>2, <1>4
<1> QED
  BY <1>9, <1>10, <1>11, <1>12, <1>13 DEF p, s, n

-------------------------------------------------------------------------------
(* The parser and the RFC: user, host and port *)

LEMMA UserParts ==
    ASSUME NEW text \in Texts, SchemeEnd(text) # 0, ~Departs(text)
    PROVE  LET p == Places(text)
               s == Split(text)
           IN  Username(text, p) = s.username /\ Password(text, p) = s.password
<1> DEFINE p == Places(text)
           s == Split(text)
           n == Len(text)
           start == StartAt(text)
           tail == TailAt(text)
           at == UserAt(text)
           host == HostAt(text)
           colon == ColonAt(text)
           mark == Find(COLON, text, start)
<1>1. /\ n \in Nat /\ start \in 1 .. n + 1 /\ tail \in start .. n + 1 /\ at \in start .. tail
      /\ at # tail => text[at] = AT
      /\ \A k \in start .. at - 1 : text[k] # AT
  BY SplitPlaces
<1>2. /\ p.start = start /\ p.host = host
      /\ at < tail => p.at = at /\ host = at + 1
      /\ at >= tail => p.at = 0 /\ host = start
  BY UserPlace
<1>3. /\ s.username = (IF host = start THEN <<>> ELSE SubSeq(text, start, Min({colon, at}) - 1))
      /\ s.password = (IF host = start THEN <<>> ELSE SubSeq(text, colon + 1, at - 1))
  BY SplitIs
<1>4. /\ colon \in start .. n + 1
      /\ colon <= n => text[colon] \in {COLON, AT}
      /\ \A k \in start .. colon - 1 : text[k] \notin {COLON, AT}
  BY <1>1, FoundBefore DEF ColonAt
<1>5. /\ mark \in 0 .. n
      /\ mark = 0 => \A k \in start .. n : text[k] # COLON
      /\ mark # 0 => /\ mark \in start .. n /\ text[mark] = COLON
                     /\ \A k \in start .. mark - 1 : text[k] # COLON
  <2>1. start \in Nat \ {0}
    BY <1>1
  <2> QED
    BY <2>1, Found
<1>6. /\ UserEnd(text, p) = (IF mark = 0 \/ mark > p.at THEN p.at ELSE mark)
      /\ Username(text, p) = (IF p.at = 0 THEN <<>> ELSE SubSeq(text, p.start, UserEnd(text, p) - 1))
      /\ Password(text, p) = (IF p.at = 0 THEN <<>> ELSE SubSeq(text, UserEnd(text, p) + 1, p.at - 1))
  BY <1>2 DEF UserEnd, Username, Password
<1> HIDE DEF p, s, n, start, tail, at, host, colon, mark
<1>7. CASE ~(at < tail)
  <2>1. p.at = 0 /\ host = start
    BY <1>1, <1>2, <1>7
  <2>2. Username(text, p) = s.username /\ Password(text, p) = s.password
    BY <1>3, <1>6, <2>1
  <2> QED
    BY <2>2 DEF p, s
<1>8. CASE at < tail
  <2>1. p.at = at /\ at # 0 /\ host # start /\ text[at] = AT /\ at \in start .. n
    BY <1>1, <1>2, <1>8
  <2>2. colon <= at
    <3> SUFFICES ASSUME colon > at PROVE FALSE
      BY <1>1, <1>4
    <3>1. at \in start .. colon - 1
      BY <1>1, <1>4
    <3> QED
      BY <1>4, <2>1, <3>1
  <2>3. UserEnd(text, p) = colon
    <3>1. CASE text[colon] = COLON
      <4>1. colon \in start .. n
        BY <1>1, <1>4, <2>1, <2>2
      <4>2. mark # 0
        BY <1>5, <3>1, <4>1
      <4>3. ~(mark < colon)
        <5> SUFFICES ASSUME mark < colon PROVE FALSE
          OBVIOUS
        <5>1. mark \in start .. colon - 1
          BY <1>4, <1>5, <4>2
        <5> QED
          BY <1>4, <1>5, <4>2, <5>1
      <4>4. ~(colon < mark)
        <5> SUFFICES ASSUME colon < mark PROVE FALSE
          OBVIOUS
        <5>1. colon \in start .. mark - 1
          BY <1>4, <1>5, <4>2
        <5> QED
          BY <1>5, <3>1, <4>2, <5>1
      <4>5. mark = colon
        BY <1>4, <1>5, <4>3, <4>4
      <4> QED
        BY <1>1, <1>5, <1>6, <2>1, <2>2, <4>1, <4>2, <4>5
    <3>2. CASE text[colon] # COLON
      <4>1. text[colon] = AT /\ colon <= n
        BY <1>1, <1>4, <2>1, <2>2, <3>2
      <4>2. colon = at
        <5> SUFFICES ASSUME colon # at PROVE FALSE
          OBVIOUS
        <5>1. colon \in start .. at - 1
          BY <1>1, <1>4, <2>2
        <5> QED
          BY <1>1, <4>1, <5>1
      <4>3. mark = 0 \/ mark > at
        <5> SUFFICES ASSUME mark # 0, ~(mark > at) PROVE FALSE
          OBVIOUS
        <5>1. mark # at
          BY <1>5, <3>2, <4>2
        <5>2. mark \in start .. colon - 1
          BY <1>1, <1>5, <4>2, <5>1
        <5> QED
          BY <1>4, <1>5, <5>2
      <4> QED
        BY <1>6, <2>1, <4>2, <4>3
    <3> QED
      BY <3>1, <3>2
  <2>4. Min({colon, at}) = colon
    <3>1. colon \in {colon, at} /\ \A m \in {colon, at} : colon <= m
      BY <1>1, <1>4, <2>2
    <3>2. {colon, at} \in SUBSET Nat /\ {colon, at} # {}
      BY <1>1, <1>4
    <3>3. Min({colon, at}) \in {colon, at} /\ \A m \in {colon, at} : Min({colon, at}) <= m
      BY <3>2, MinOf
    <3> QED
      BY <1>1, <1>4, <2>2, <3>1, <3>3
  <2>5. Username(text, p) = s.username /\ Password(text, p) = s.password
    BY <1>2, <1>3, <1>6, <2>1, <2>3, <2>4
  <2> QED
    BY <2>5 DEF p, s
<1> QED
  BY <1>7, <1>8

(* Where a bracket is, and where the port is *)
LEMMA PortPlaces ==
    ASSUME NEW text \in Texts, SchemeEnd(text) # 0, ~Departs(text)
    PROVE  LET p == Places(text)
               tail == TailAt(text)
           IN  /\ HostAt(text) \in 1 .. tail /\ CloseAt(text) \in HostAt(text) .. tail
               /\ p.v6 = IsV6(text)
               /\ CloseAt(text) < tail => p.close = CloseAt(text)
               /\ ~(CloseAt(text) < tail) => p.close = 0 \/ p.close > tail
               /\ PortAt(text) \in 1 .. tail
               /\ ~IsV6(text) \/ CloseAt(text) < tail =>
                    /\ HasPort(text, p) <=> PortAt(text) < tail
                    /\ PortAt(text) < tail => p.colon = PortAt(text)
<1> DEFINE p == Places(text)
           s == Split(text)
           n == Len(text)
           start == StartAt(text)
           tail == TailAt(text)
           host == HostAt(text)
           close == CloseAt(text)
           port == PortAt(text)
<1>1. /\ n \in Nat /\ start \in 1 .. n + 1 /\ tail \in start .. n + 1 /\ host \in start .. tail
      /\ tail <= n => text[tail] \in {SLASH, QUESTION_MARK, HASHTAG}
      /\ \A k \in start .. tail - 1 : text[k] \notin {SLASH, QUESTION_MARK, HASHTAG}
  BY SplitPlaces
<1>2. p.host = host
  BY UserPlace
<1>3. /\ p.v6 = (p.host <= n /\ text[p.host] = "[") /\ p.v6 \in BOOLEAN
      /\ p.close = Find("]", text, p.host)
      /\ p.colon = (IF p.v6 /\ p.close # 0 /\ Find(COLON, text, p.host) # 0
                    THEN Find(COLON, text, p.close) ELSE Find(COLON, text, p.host))
  BY PlacesAre
<1>4. IsV6(text) = (host <= n /\ text[host] = "[")
  BY DEF IsV6
<1>5. host \in 1 .. n + 1 /\ host \in Nat \ {0} /\ host \in 1 .. tail /\ tail \in 1 .. n + 1
  <2> HIDE DEF n, start, tail, host
  <2> QED
    BY <1>1
<1>6. /\ close \in host .. n + 1
      /\ close <= n => text[close] \in {"]", SLASH, QUESTION_MARK, HASHTAG}
      /\ \A k \in host .. close - 1 : text[k] \notin {"]", SLASH, QUESTION_MARK, HASHTAG}
  BY <1>5, FoundBefore DEF CloseAt
<1> DEFINE f == Find("]", text, host)
<1>7. /\ f \in 0 .. n
      /\ f = 0 => \A k \in host .. n : text[k] # "]"
      /\ f # 0 => /\ f \in host .. n /\ text[f] = "]"
                  /\ \A k \in host .. f - 1 : text[k] # "]"
  BY <1>5, Found
<1> DEFINE from == IF IsV6(text) THEN close ELSE host
<1>8. port = Min({tail, Before(text, from, {COLON})})
  BY DEF PortAt
<1>9. PortEnd(text, p) = IF Bare(text) /\ Queried(text) THEN 0 ELSE tail
  BY EndPlaces
<1>10. Queried(text) /\ Bare(text) => ~s.ported
  BY InPlace
<1>11. s.ported = (port < tail)
  BY SplitIs
<1>12. HasPort(text, p) <=> p.colon # 0 /\ p.colon < PortEnd(text, p)
  BY DEF HasPort
<1> HIDE DEF p, s, n, start, tail, host, close, port, f
<1>13. close \in host .. tail
  <2> SUFFICES ASSUME close > tail PROVE FALSE
    BY <1>1, <1>5, <1>6
  <2>1. tail \in host .. close - 1 /\ tail <= n
    BY <1>1, <1>5, <1>6
  <2> QED
    BY <1>1, <1>6, <2>1
<1>14. close < tail => text[close] = "]"
  <2> SUFFICES ASSUME close < tail PROVE text[close] = "]"
    OBVIOUS
  <2>1. close <= n /\ close \in start .. tail - 1
    BY <1>1, <1>13
  <2> QED
    BY <1>1, <1>6, <2>1
<1>15. close < tail => p.close = close
  <2> SUFFICES ASSUME close < tail PROVE p.close = close
    OBVIOUS
  <2>1. close \in 0 .. n /\ close # 0 /\ close >= host /\ close \in host .. n
    BY <1>1, <1>5, <1>13
  <2>2. \A k \in host .. close - 1 : text[k] # "]"
    BY <1>6
  <2>3. Find("]", text, host) = close
    BY <1>5, <1>14, <2>1, <2>2, FindIs DEF n
  <2> QED
    BY <1>2, <1>3, <2>3
<1>16. ~(close < tail) => p.close = 0 \/ p.close > tail
  <2> SUFFICES ASSUME ~(close < tail), f # 0, ~(f > tail) PROVE FALSE
    BY <1>2, <1>3 DEF f
  <2>1. close = tail /\ f \in host .. n /\ text[f] = "]"
    BY <1>5, <1>7, <1>13
  <2>2. f # tail
    <3> SUFFICES ASSUME f = tail PROVE FALSE
      OBVIOUS
    <3>1. text[f] \in {SLASH, QUESTION_MARK, HASHTAG}
      BY <1>1, <2>1
    <3> QED
      BY <2>1, <3>1 DEF SLASH, QUESTION_MARK, HASHTAG
  <2>3. f \in host .. close - 1
    BY <1>5, <2>1, <2>2
  <2> QED
    BY <1>6, <2>1, <2>3
<1>17. p.v6 = IsV6(text)
  BY <1>2, <1>3, <1>4
<1> HIDE DEF from
<1>18. from \in host .. tail /\ from \in 1 .. n + 1 /\ from \in Nat \ {0}
  <2>1. from = host \/ from = close
    BY DEF from
  <2>2. host \in host .. tail /\ host \in 1 .. n + 1 /\ host \in Nat \ {0}
    BY <1>1, <1>5
  <2>3. close \in host .. tail /\ close \in 1 .. n + 1 /\ close \in Nat \ {0}
    BY <1>1, <1>5, <1>13
  <2> QED
    BY <2>1, <2>2, <2>3
<1> DEFINE b == Before(text, from, {COLON})
<1>19. /\ b \in from .. n + 1
       /\ b <= n => text[b] = COLON
       /\ \A k \in from .. b - 1 : text[k] # COLON
  <2>1. /\ b \in from .. n + 1
        /\ b <= n => text[b] \in {COLON}
        /\ \A k \in from .. b - 1 : text[k] \notin {COLON}
    <3> QED
      BY <1>18, FoundBefore DEF n
  <2> HIDE DEF b
  <2> QED
    BY <2>1
<1> HIDE DEF b
<1>20. port = IF b < tail THEN b ELSE tail
  <2>1. {tail, b} \in SUBSET Nat /\ {tail, b} # {}
    BY <1>5, <1>18, <1>19
  <2>2. Min({tail, b}) \in {tail, b} /\ \A m \in {tail, b} : Min({tail, b}) <= m
    BY <2>1, MinOf
  <2>3. port = Min({tail, b})
    BY <1>8 DEF b
  <2> QED
    BY <2>1, <2>2, <2>3
<1>21. port \in 1 .. tail
  BY <1>5, <1>18, <1>19, <1>20
<1>22. ASSUME ~IsV6(text) \/ close < tail
       PROVE  p.colon = IF b <= n THEN b ELSE 0
  <2>1. Find(COLON, text, from) = IF b <= n THEN b ELSE 0
    <3>1. CASE b <= n
      <4>1. b \in 0 .. n /\ b # 0 /\ b >= from
        BY <1>5, <1>18, <1>19, <3>1
      <4> QED
        BY <1>18, <1>19, <3>1, <4>1, FindIs DEF n
    <3>2. CASE ~(b <= n)
      <4>1. \A k \in from .. n : text[k] # COLON
        <5> TAKE k \in from .. n
        <5>1. k \in from .. b - 1
          BY <1>1, <1>5, <1>18, <1>19, <3>2
        <5> QED
          BY <1>19, <5>1
      <4>2. 0 \in 0 .. n
        BY <1>1
      <4> QED
        BY <1>18, <3>2, <4>1, <4>2, FindIs DEF n
    <3> QED
      BY <3>1, <3>2
  <2>2. CASE ~IsV6(text)
    <3>1. p.colon = Find(COLON, text, host) /\ from = host
      BY <1>2, <1>3, <1>17, <2>2 DEF from
    <3> QED
      BY <2>1, <3>1
  <2>3. CASE IsV6(text)
    <3>1. p.close = close /\ close # 0 /\ from = close /\ close \in Nat \ {0}
      BY <1>5, <1>13, <1>15, <1>22, <2>3 DEF from
    <3>2. p.colon = IF Find(COLON, text, host) # 0 THEN Find(COLON, text, close) ELSE Find(COLON, text, host)
      BY <1>2, <1>3, <1>17, <2>3, <3>1
    <3>3. Find(COLON, text, host) = 0 => Find(COLON, text, close) = 0
      <4> SUFFICES ASSUME Find(COLON, text, host) = 0 PROVE Find(COLON, text, close) = 0
        OBVIOUS
      <4>1. \A k \in host .. n : text[k] # COLON
        BY <1>5, Found DEF n
      <4>2. \A k \in close .. n : text[k] # COLON
        <5> TAKE k \in close .. n
        <5>1. k \in host .. n
          BY <1>1, <1>5, <1>13
        <5> QED
          BY <4>1, <5>1
      <4>3. 0 \in 0 .. n
        BY <1>1
      <4> QED
        BY <3>1, <4>2, <4>3, FindIs DEF n
    <3> QED
      BY <2>1, <3>1, <3>2, <3>3
  <2> QED
    BY <2>2, <2>3
<1>23. ASSUME ~IsV6(text) \/ close < tail
       PROVE  /\ HasPort(text, p) <=> port < tail
              /\ port < tail => p.colon = port
  <2>1. p.colon = IF b <= n THEN b ELSE 0
    BY <1>22, <1>23
  <2>2. port < tail <=> b < tail
    BY <1>5, <1>18, <1>19, <1>20
  <2>0. b \in Nat \ {0} /\ tail \in Nat /\ tail <= n + 1 /\ n \in Nat
    BY <1>1, <1>5, <1>18, <1>19
  <2>3. port < tail => p.colon = port
    BY <1>20, <2>0, <2>1, <2>2
  <2>4. CASE Bare(text) /\ Queried(text)
    <3>1. ~(port < tail)
      BY <1>10, <1>11, <2>4
    <3>2. ~(p.colon # 0 /\ p.colon < 0)
      BY <1>5, <1>18, <1>19, <2>1
    <3> QED
      BY <1>9, <1>12, <2>4, <3>1, <3>2
  <2>5. CASE ~(Bare(text) /\ Queried(text))
    <3>1. (p.colon # 0 /\ p.colon < tail) <=> b < tail
      BY <2>0, <2>1
    <3> QED
      BY <1>9, <1>12, <2>2, <2>3, <2>5, <3>1
  <2> QED
    BY <2>3, <2>4, <2>5
<1> QED
  BY <1>5, <1>13, <1>15, <1>16, <1>17, <1>21, <1>23 DEF p, tail, host, close, port

-------------------------------------------------------------------------------
(* The parser and the RFC: what is read *)

LEMMA HostParts ==
    ASSUME NEW text \in Texts, SchemeEnd(text) # 0, ~Departs(text)
    PROVE  LET p == Places(text)
               s == Split(text)
           IN  /\ p.v6 = s.v6
               /\ ~s.v6 \/ s.closed => HostText(text, p) = s.host /\ PortText(text, p) = s.port
               /\ s.v6 /\ ~s.closed => p.close = 0 \/ HostText(text, p) \notin Addresses
<1> DEFINE p == Places(text)
           s == Split(text)
           n == Len(text)
           tail == TailAt(text)
           host == HostAt(text)
           close == CloseAt(text)
           port == PortAt(text)
<1>1. /\ host \in 1 .. tail /\ close \in host .. tail
      /\ p.v6 = IsV6(text)
      /\ close < tail => p.close = close
      /\ ~(close < tail) => p.close = 0 \/ p.close > tail
      /\ port \in 1 .. tail
      /\ ~IsV6(text) \/ close < tail =>
           /\ HasPort(text, p) <=> port < tail
           /\ port < tail => p.colon = port
  BY PortPlaces
<1>2. /\ s.v6 = IsV6(text) /\ s.closed = (close < tail)
      /\ s.host = (IF IsV6(text) THEN SubSeq(text, host + 1, close - 1)
                   ELSE SubSeq(text, host, port - 1))
      /\ s.port = SubSeq(text, port + 1, tail - 1)
  BY SplitIs
<1>3. /\ PortEnd(text, p) = (IF Bare(text) /\ Queried(text) THEN 0 ELSE tail)
      /\ Or(p.path, Or(p.query, Or(p.fragment, n + 1))) = tail
  BY EndPlaces
<1>4. /\ Queried(text) /\ Bare(text) => ~s.ported
      /\ s.ported = (port < tail)
  BY InPlace, SplitIs
<1>5. /\ n \in Nat /\ tail \in 1 .. n + 1
      /\ tail <= n => text[tail] \in {SLASH, QUESTION_MARK, HASHTAG}
  BY SplitPlaces, TailCases
<1>6. p.host = host /\ p.close \in 0 .. n /\ (IsV6(text) => host <= n /\ text[host] = "[")
  BY UserPlace, PlacesFound DEF IsV6
<1>7. /\ PortText(text, p) = (IF HasPort(text, p) THEN SubSeq(text, p.colon + 1, PortEnd(text, p) - 1) ELSE <<>>)
      /\ HostText(text, p) =
           (IF p.v6 THEN SubSeq(text, p.host + 1, p.close - 1)
            ELSE SubSeq(text, p.host,
                        (IF HasPort(text, p) THEN p.colon
                         ELSE Or(p.path, Or(p.query, Or(p.fragment, n + 1)))) - 1))
  BY Zenon DEF PortText, HostText, n
<1>8. \A i, j \in Int : i > j => SubSeq(text, i, j) = <<>>
  BY SubSeqEmpty
<1> HIDE DEF p, s, n, tail, host, close, port
<1>9. ASSUME ~IsV6(text) \/ close < tail
      PROVE  HostText(text, p) = s.host /\ PortText(text, p) = s.port
  <2>1. CASE port < tail
    <3>1. HasPort(text, p) /\ p.colon = port /\ PortEnd(text, p) = tail
      BY <1>1, <1>3, <1>4, <1>9, <2>1
    <3>2. PortText(text, p) = s.port
      BY <1>2, <1>7, <3>1
    <3>3. HostText(text, p) = s.host
      BY <1>1, <1>2, <1>6, <1>7, <1>9, <3>1
    <3> QED
      BY <3>2, <3>3
  <2>2. CASE ~(port < tail)
    <3>1. ~HasPort(text, p) /\ port = tail /\ port + 1 \in Int /\ tail - 1 \in Int /\ port + 1 > tail - 1
      BY <1>1, <1>5, <1>9, <2>2
    <3>2. PortText(text, p) = s.port
      BY <1>2, <1>7, <1>8, <3>1
    <3>3. HostText(text, p) = s.host
      BY <1>1, <1>2, <1>3, <1>6, <1>7, <1>9, <3>1
    <3> QED
      BY <3>2, <3>3
  <2> QED
    BY <2>1, <2>2
<1>10. ASSUME IsV6(text), ~(close < tail), p.close # 0
       PROVE  HostText(text, p) \notin Addresses
  <2> DEFINE a == SubSeq(text, host + 1, p.close - 1)
  <2>1. HostText(text, p) = a
    BY <1>1, <1>6, <1>7, <1>10
  <2>2. p.close > tail /\ p.close \in 1 .. n /\ tail <= n
    BY <1>1, <1>5, <1>6, <1>10
  <2>3. text[tail] \in {SLASH, QUESTION_MARK, HASHTAG}
    BY <1>5, <2>2
  <2>4. host < tail
    <3> SUFFICES ASSUME host = tail PROVE FALSE
      BY <1>1, <1>5
    <3>1. text[tail] = "["
      BY <1>6, <1>10
    <3> QED
      BY <2>3, <3>1 DEF SLASH, QUESTION_MARK, HASHTAG
  <2>5. host + 1 \in Nat \ {0} /\ p.close - 1 \in Int /\ p.close - 1 <= Len(text)
    BY <1>1, <1>5, <2>2 DEF n
  <2>6. /\ a \in Texts
        /\ Len(a) = IF host + 1 <= p.close - 1 THEN (p.close - 1) - (host + 1) + 1 ELSE 0
        /\ \A k \in 1 .. (p.close - 1) - (host + 1) + 1 : a[k] = text[(host + 1) + k - 1]
    BY <2>5, Sub
  <2> HIDE DEF a
  <2> DEFINE k == tail - host
  <2>7. k \in 1 .. (p.close - 1) - (host + 1) + 1 /\ k \in 1 .. Len(a) /\ (host + 1) + k - 1 = tail
    BY <1>1, <1>5, <2>2, <2>4, <2>6
  <2> HIDE DEF k
  <2>8. a[k] = text[tail]
    BY <2>6, <2>7
  <2>9. a[k] \in ToSet(a)
    BY <2>6, <2>7, TextFacts DEF ToSet
  <2>10. a[k] \in Delimiters \ {COLON}
    BY <2>3, <2>8 DEF Delimiters, SLASH, QUESTION_MARK, HASHTAG, COLON, AT
  <2> QED
    BY <2>1, <2>9, <2>10, UriAssumption
<1> QED
  BY <1>1, <1>2, <1>9, <1>10 DEF p, s

(* A port is taken as it is written, and none that is no number *)
LEMMA PortSame ==
    ASSUME NEW port \in Texts, ~(IsNumeric(port) /\ Number(port) >= IntSpan)
    PROVE  /\ PortIsValid(port) <=> (port # <<>> => IsNumeric(port) /\ Number(port) \in 1 .. MaxPort)
           /\ PortIsValid(port) => (IF port = <<>> THEN 0 ELSE AtoI(port)) =
                                   (IF IsNumeric(port) THEN Number(port) ELSE 0)
<1>1. CASE port = <<>>
  <2>1. ToSet(<<>>) = {}
    <3>1. <<>> \in Texts /\ Len(<<>>) = 0
      BY DEF Texts
    <3> QED
      BY <3>1, TextFacts DEF ToSet
  <2>2. IsNumeric(<<>>)
    BY <2>1 DEF IsNumeric
  <2>3. Number(<<>>) = 0
    <3>1. <<>> \in Seq(DOMAIN Value) /\ Len(<<>>) = 0
      OBVIOUS
    <3>2. PICK part \in [0 .. Len(<<>>) -> Nat] : part[0] = 0 /\ part[Len(<<>>)] = Number(<<>>)
      BY <3>1, NumberFold
    <3> QED
      BY <3>1, <3>2
  <2> QED
    BY <1>1, <2>2, <2>3 DEF PortIsValid
<1>2. CASE port # <<>> /\ ~IsNumeric(port)
  BY <1>2 DEF PortIsValid
<1>3. CASE port # <<>> /\ IsNumeric(port)
  <2>1. port \in Seq(DOMAIN Value)
    BY <1>3, NumericSeq
  <2> DEFINE m == Number(port)
             a == AtoI(port)
  <2>2. m \in Nat /\ a \in Int
        /\ (m < IntSpan => a = IF 2 * m >= IntSpan THEN m - IntSpan ELSE m)
    BY <2>1, AtoIIs
  <2>3. ~(m >= IntSpan)
    BY <1>3
  <2>4. IntSpan \in Nat /\ MaxPort \in Nat /\ 2 * MaxPort < IntSpan
    BY UriAssumption
  <2>5. PortIsValid(port) <=> a \in 1 .. MaxPort
    BY <1>3 DEF PortIsValid
  <2> HIDE DEF m, a
  <2>6. a = IF 2 * m >= IntSpan THEN m - IntSpan ELSE m
    BY <2>2, <2>3, <2>4
  <2>7. a \in 1 .. MaxPort <=> m \in 1 .. MaxPort
    BY <2>2, <2>3, <2>4, <2>6
  <2>8. a \in 1 .. MaxPort => a = m
    BY <2>2, <2>3, <2>4, <2>6
  <2> QED
    BY <1>3, <2>5, <2>7, <2>8 DEF m, a
<1> QED
  BY <1>1, <1>2, <1>3

(* What the parser takes, and what it reads *)
LEMMA ReadAlike ==
    ASSUME NEW text \in Texts, SchemeEnd(text) \notin {0, 1}, ~Departs(text)
    PROVE  /\ ParseCode(text) = "SUCCESS" <=> IsUrl(text)
           /\ ParseCode(text) = "SUCCESS" => parse_uri(text) = Reading(text)
<1> DEFINE p == Places(text)
           s == Split(text)
<1>1. /\ SchemeEnd(text) # 0 /\ SchemeEnd(text) > 1
      /\ ParseCode(text) = "SUCCESS" <=> Accepts(text, p)
  BY SuccessIs, SchemeFound
<1>2. /\ p.v6 = s.v6
      /\ ~s.v6 \/ s.closed => HostText(text, p) = s.host /\ PortText(text, p) = s.port
      /\ s.v6 /\ ~s.closed => p.close = 0 \/ HostText(text, p) \notin Addresses
  BY <1>1, HostParts
<1>3. /\ PartAfter(text, p.path, PathEnd(text, p)) = OrNull(s.path)
      /\ PartAfter(text, p.query, QueryEnd(text, p)) = OrNull(s.query)
      /\ PartAfter(text, p.fragment, Len(text)) = OrNull(s.fragment)
      /\ p.query # 0 => ~(QueryEnd(text, p) < p.query)
      /\ p.path # 0 => ~(PathEnd(text, p) < p.path)
  BY <1>1, TailParts
<1>4. Username(text, p) = s.username /\ Password(text, p) = s.password
  BY <1>1, UserParts
<1>5. s.junk = <<>> /\ ~(IsNumeric(s.port) /\ Number(s.port) >= IntSpan)
  BY <1>1, InPlace
<1>6. s.v6 \in BOOLEAN /\ s.closed \in BOOLEAN /\ (s.v6 /\ s.closed => p.close # 0)
  <2>1. s.v6 = IsV6(text) /\ s.closed = (CloseAt(text) < TailAt(text))
    BY SplitIs
  <2>2. /\ HostAt(text) \in 1 .. TailAt(text) /\ CloseAt(text) \in HostAt(text) .. TailAt(text)
        /\ CloseAt(text) < TailAt(text) => p.close = CloseAt(text)
    BY <1>1, PortPlaces
  <2>3. IsV6(text) \in BOOLEAN
    BY DEF IsV6
  <2>4. CloseAt(text) >= 1
    <3> HIDE DEF p, s
    <3>1. TailAt(text) \in Nat
      BY <1>1, TailPlaces, TextFacts
    <3> QED
      BY <2>2, <3>1
  <2>5. s.v6 \in BOOLEAN /\ s.closed \in BOOLEAN
    <3>1. (CloseAt(text) < TailAt(text)) \in BOOLEAN
      OBVIOUS
    <3> QED
      BY <2>1, <2>3, <3>1, Zenon
  <2>6. s.closed => p.close = CloseAt(text)
    BY <2>1, <2>2, Zenon
  <2> HIDE DEF p, s
  <2> QED
    BY <2>4, <2>5, <2>6
<1>7. ~s.v6 \/ s.closed => s.port \in Texts
  BY <1>1, <1>2, ParsedTexts
<1>8. Accepts(text, p) <=>
        /\ SchemeIsValid(SubSeq(text, 1, SchemeEnd(text) - 1))
        /\ ~(p.v6 /\ p.close = 0)
        /\ PortIsValid(PortText(text, p))
        /\ p.v6 => AddressIsValid(HostText(text, p))
        /\ ~p.v6 => HostnameIsValid(HostText(text, p))
  <2> HIDE DEF p
  <2> QED
    BY <1>1, <1>3 DEF Accepts
<1>9. IsUrl(text) <=>
        /\ SchemeIsValid(SubSeq(text, 1, SchemeEnd(text) - 1))
        /\ s.v6 => s.closed /\ s.junk = <<>> /\ AddressIsValid(s.host)
        /\ ~s.v6 => HostnameIsValid(s.host)
        /\ s.port # <<>> => IsNumeric(s.port) /\ Number(s.port) \in 1 .. MaxPort
  <2>1. IsUrl(text) <=>
          /\ SchemeIsValid(SubSeq(text, 1, SchemeEnd(text) - 1))
          /\ IF s.v6 THEN s.closed /\ s.junk = <<>> /\ AddressIsValid(s.host)
             ELSE HostnameIsValid(s.host)
          /\ s.port # <<>> => IsNumeric(s.port) /\ Number(s.port) \in 1 .. MaxPort
    BY <1>1 DEF IsUrl
  <2> HIDE DEF s
  <2> QED
    BY <1>6, <2>1
<1> DEFINE got == PortText(text, p)
<1>10. parse_uri(text) =
         [scheme   |-> Lowered(SubSeq(text, 1, SchemeEnd(text) - 1)),
          username |-> OrNull(Username(text, p)),
          password |-> OrNull(Password(text, p)),
          has_authentication |-> Username(text, p) # <<>> \/ Password(text, p) # <<>>,
          hostname |-> IF p.v6 THEN HostText(text, p) ELSE Lowered(HostText(text, p)),
          is_ipv6  |-> p.v6,
          port     |-> IF got = <<>> THEN 0 ELSE AtoI(got),
          path     |-> PartAfter(text, p.path, PathEnd(text, p)),
          query    |-> PartAfter(text, p.query, QueryEnd(text, p)),
          fragment |-> PartAfter(text, p.fragment, Len(text))]
  BY Zenon DEF parse_uri, PartsAt
<1>11. Reading(text) =
         [scheme   |-> Lowered(SubSeq(text, 1, SchemeEnd(text) - 1)),
          username |-> OrNull(s.username),
          password |-> OrNull(s.password),
          has_authentication |-> s.username # <<>> \/ s.password # <<>>,
          hostname |-> IF s.v6 THEN s.host ELSE Lowered(s.host),
          is_ipv6  |-> s.v6,
          port     |-> IF IsNumeric(s.port) THEN Number(s.port) ELSE 0,
          path     |-> OrNull(s.path),
          query    |-> OrNull(s.query),
          fragment |-> OrNull(s.fragment)]
  BY Zenon DEF Reading, ReadingOf
<1> HIDE DEF p, s, got
<1>12. CASE s.v6 /\ ~s.closed
  <2>1. ~IsUrl(text)
    BY <1>9, <1>12
  <2>2. p.v6
    BY <1>2, <1>12
  <2>3. ~Accepts(text, p)
    BY <1>2, <1>8, <1>12, <2>2 DEF AddressIsValid
  <2> QED
    BY <1>1, <2>1, <2>3
<1>13. CASE ~s.v6 \/ s.closed
  <2>1. HostText(text, p) = s.host /\ PortText(text, p) = s.port /\ s.port \in Texts
    BY <1>2, <1>7, <1>13
  <2>2. /\ PortIsValid(s.port) <=> (s.port # <<>> => IsNumeric(s.port) /\ Number(s.port) \in 1 .. MaxPort)
        /\ PortIsValid(s.port) => (IF s.port = <<>> THEN 0 ELSE AtoI(s.port)) =
                                  (IF IsNumeric(s.port) THEN Number(s.port) ELSE 0)
    BY <1>5, <2>1, PortSame
  <2>3. Accepts(text, p) <=> IsUrl(text)
    BY <1>2, <1>5, <1>6, <1>8, <1>9, <1>13, <2>1, <2>2
  <2>4. ASSUME Accepts(text, p) PROVE parse_uri(text) = Reading(text)
    <3>1. PortIsValid(s.port)
      BY <1>8, <2>1, <2>4
    <3>2. (IF s.port = <<>> THEN 0 ELSE AtoI(s.port)) = (IF IsNumeric(s.port) THEN Number(s.port) ELSE 0)
      BY <2>2, <3>1
    <3>3. got = s.port
      BY <2>1 DEF got
    <3> QED
      BY <1>2, <1>3, <1>4, <1>10, <1>11, <2>1, <3>2, <3>3, Zenon
  <2> QED
    BY <1>1, <2>3, <2>4
<1> QED
  BY <1>6, <1>12, <1>13

(* A text without a scheme is no URL *)
LEMMA NoScheme ==
    ASSUME NEW text \in Texts, SchemeEnd(text) \in {0, 1}
    PROVE  ParseCode(text) # "SUCCESS" /\ ~IsUrl(text)
BY SuccessIs DEF Accepts, IsUrl

-------------------------------------------------------------------------------
(* What was quoted is unquoted *)

PrefixOf(front, text) ==
    Len(front) <= Len(text) /\ \A i \in 1 .. Len(front) : text[i] = front[i]

LEMMA PrefixConcat ==
    ASSUME NEW front \in Texts, NEW more \in Texts, NEW text \in Texts, PrefixOf(front \o more, text)
    PROVE  /\ PrefixOf(front, text) /\ Len(front) + Len(more) <= Len(text)
           /\ \A i \in 1 .. Len(more) : text[Len(front) + i] = more[i]
<1>1. /\ Len(front) \in Nat /\ Len(more) \in Nat /\ Len(text) \in Nat
      /\ Len(front \o more) = Len(front) + Len(more)
      /\ \A i \in 1 .. Len(front) : (front \o more)[i] = front[i]
      /\ \A i \in 1 .. Len(more) : (front \o more)[Len(front) + i] = more[i]
  BY DEF Texts
<1> DEFINE all == front \o more
<1>2. Len(all) <= Len(text) /\ \A i \in 1 .. Len(all) : text[i] = all[i]
  BY DEF PrefixOf
<1> HIDE DEF all
<1>3. \A i \in 1 .. Len(front) : i \in 1 .. Len(all)
  BY <1>1 DEF all
<1>4. \A i \in 1 .. Len(more) : Len(front) + i \in 1 .. Len(all)
  BY <1>1 DEF all
<1>5. \A i \in 1 .. Len(front) : text[i] = front[i]
  BY <1>1, <1>2, <1>3 DEF all
<1>6. \A i \in 1 .. Len(more) : text[Len(front) + i] = more[i]
  BY <1>1, <1>2, <1>4 DEF all
<1>7. Len(all) = Len(front) + Len(more)
  BY <1>1 DEF all
<1> QED
  BY <1>1, <1>2, <1>5, <1>6, <1>7 DEF PrefixOf

(* A quoted character is the only one with its digits *)
LEMMA UnhexIs ==
    ASSUME NEW c \in DOMAIN Hex, NEW one, NEW two, Hex[c] = <<one, two>>
    PROVE  Unhex(one, two) = c
<1>1. \A d \in DOMAIN Hex : Hex[d] = <<one, two>> => d = c
  BY UriAssumption
<1>2. (CHOOSE d \in DOMAIN Hex : Hex[d] = <<one, two>>) = c
  BY <1>1, Zenon
<1> QED
  BY <1>2, Zenon DEF Unhex

LEMMA UnquoteTurns ==
    /\ \A text, out, k : UnquoteStep(text, 2, [out |-> out, skip |-> 2], k) = [out |-> out, skip |-> 1]
    /\ \A text, out, k : UnquoteStep(text, 2, [out |-> out, skip |-> 1], k) = [out |-> out, skip |-> 0]
    /\ \A text, out, k : text[k] # "%" =>
         UnquoteStep(text, 2, [out |-> out, skip |-> 0], k) = [out |-> Append(out, text[k]), skip |-> 0]
    /\ \A text, out, k : text[k] = "%" /\ Len(text) > k + 1 =>
         UnquoteStep(text, 2, [out |-> out, skip |-> 0], k)
           = [out |-> Append(out, Unhex(text[k + 1], text[k + 2])), skip |-> 2]
<1>1. ASSUME NEW text, NEW out, NEW left, NEW k
      PROVE  UnquoteStep(text, 2, [out |-> out, skip |-> left], k) =
               IF left > 0 THEN [out |-> out, skip |-> left - 1]
               ELSE IF text[k] = "%" /\ Len(text) > k + 1
               THEN [out |-> Append(out, Unhex(text[k + 1], text[k + 2])), skip |-> 2]
               ELSE [out |-> Append(out, text[k]), skip |-> left]
  <2> DEFINE acc == [out |-> out, skip |-> left]
             longer == Append(out, text[k])
  <2>1. acc.out = out /\ acc.skip = left
    OBVIOUS
  <2>2. /\ [acc EXCEPT !.skip = acc.skip - 1] = [out |-> out, skip |-> left - 1]
        /\ [acc EXCEPT !.out = longer] = [out |-> longer, skip |-> left]
    <3> HIDE DEF longer
    <3> QED
      OBVIOUS
  <2> HIDE DEF acc
  <2> QED
    BY <2>1, <2>2, Zenon DEF UnquoteStep, acc
<1>2. 2 > 0 /\ 2 - 1 = 1 /\ 1 > 0 /\ 1 - 1 = 0 /\ ~(0 > 0)
  OBVIOUS
<1>3. \A text, out, k : UnquoteStep(text, 2, [out |-> out, skip |-> 2], k) = [out |-> out, skip |-> 1]
  <2> TAKE text, out, k
  <2>1. UnquoteStep(text, 2, [out |-> out, skip |-> 2], k) =
               IF 2 > 0 THEN [out |-> out, skip |-> 2 - 1]
               ELSE IF text[k] = "%" /\ Len(text) > k + 1
               THEN [out |-> Append(out, Unhex(text[k + 1], text[k + 2])), skip |-> 2]
               ELSE [out |-> Append(out, text[k]), skip |-> 2]
    BY <1>1, Zenon
  <2> QED
    BY <1>2, <2>1, Zenon
<1>4. \A text, out, k : UnquoteStep(text, 2, [out |-> out, skip |-> 1], k) = [out |-> out, skip |-> 0]
  <2> TAKE text, out, k
  <2>1. UnquoteStep(text, 2, [out |-> out, skip |-> 1], k) =
               IF 1 > 0 THEN [out |-> out, skip |-> 1 - 1]
               ELSE IF text[k] = "%" /\ Len(text) > k + 1
               THEN [out |-> Append(out, Unhex(text[k + 1], text[k + 2])), skip |-> 2]
               ELSE [out |-> Append(out, text[k]), skip |-> 1]
    BY <1>1, Zenon
  <2> QED
    BY <1>2, <2>1, Zenon
<1>5. \A text, out, k : text[k] # "%" =>
         UnquoteStep(text, 2, [out |-> out, skip |-> 0], k) = [out |-> Append(out, text[k]), skip |-> 0]
  <2> TAKE text, out, k
  <2> HAVE text[k] # "%"
  <2>1. UnquoteStep(text, 2, [out |-> out, skip |-> 0], k) =
               IF 0 > 0 THEN [out |-> out, skip |-> 0 - 1]
               ELSE IF text[k] = "%" /\ Len(text) > k + 1
               THEN [out |-> Append(out, Unhex(text[k + 1], text[k + 2])), skip |-> 2]
               ELSE [out |-> Append(out, text[k]), skip |-> 0]
    BY <1>1, Zenon
  <2> QED
    BY <1>2, <2>1, Zenon
<1>6. \A text, out, k : text[k] = "%" /\ Len(text) > k + 1 =>
         UnquoteStep(text, 2, [out |-> out, skip |-> 0], k)
           = [out |-> Append(out, Unhex(text[k + 1], text[k + 2])), skip |-> 2]
  BY <1>1, <1>2, Zenon
<1> QED
  BY <1>3, <1>4, <1>5, <1>6, Zenon

LEMMA Unquotes ==
    ASSUME NEW text \in Texts, NEW places \in SUBSET Quotable(text),
           {k \in DOMAIN text : text[k] = "%"} \subseteq places, "NUL" \notin ToSet(text)
    PROVE  rfc3986_unquote_safe(QuotedAt(text, places)) = text
<1> DEFINE n == Len(text)
           q == QuotedAt(text, places)
           piece(k) == IF k \in places THEN <<"%">> \o Hex[text[k]] ELSE <<text[k]>>
<1>1. /\ n \in Nat /\ DOMAIN text = 1 .. n /\ \A k \in 1 .. n : text[k] \in Token
      /\ \A k \in 1 .. n : text[k] # "NUL"
  BY TextFacts DEF ToSet
<1>2. q \in Texts /\ Len(q) \in Nat
  BY QuotedType, TextFacts
<1>3. PICK part \in [0 .. n -> Texts] :
             /\ part[0] = <<>> /\ part[n] = q
             /\ \A k \in 1 .. n : part[k] = part[k - 1] \o piece(k)
  BY QuotedFold
<1>4. PICK acc \in [0 .. Len(q) -> Unquoting] :
             /\ acc[0] = [out |-> <<>>, skip |-> 0] /\ acc[Len(q)] = UnquotedAll(q, 2)
             /\ \A k \in 1 .. Len(q) : acc[k] = UnquoteStep(q, 2, acc[k - 1], k)
  <2>1. 2 \in Int
    OBVIOUS
  <2> HIDE DEF q
  <2> QED
    BY <1>2, <2>1, UnquotedFold
<1>5. \A k \in 1 .. n : /\ k \in places => text[k] \in DOMAIN Hex
                        /\ k \notin places => text[k] # "%"
  BY <1>1 DEF Quotable
<1>6. \A k \in 1 .. n : piece(k) \in Texts
  <2> TAKE k \in 1 .. n
  <2>1. CASE k \in places
    BY <1>5, <2>1, HexTypes
  <2>2. CASE k \notin places
    BY <1>1, <2>2, LengthOne
  <2> QED
    BY <2>1, <2>2
<1> DEFINE Q == {j \in 0 .. n : PrefixOf(part[n - j], q)}
           R == {k \in 0 .. n : acc[Len(part[k])] = [out |-> SubSeq(text, 1, k), skip |-> 0]}
<1> HIDE DEF n, q, piece
<1>7. \A k \in 0 .. n : PrefixOf(part[k], q)
  <2>1. 0 \in Q
    <3>1. PrefixOf(q, q)
      BY <1>2 DEF PrefixOf
    <3> QED
      BY <1>1, <1>3, <3>1
  <2>2. ASSUME NEW j \in 1 .. n, j - 1 \in Q PROVE j \in Q
    <3> DEFINE k == (n - j) + 1
    <3>1. k \in 1 .. n /\ n - (j - 1) = k /\ n - j = k - 1 /\ k - 1 \in 0 .. n /\ k \in 0 .. n
      BY <1>1
    <3> HIDE DEF k
    <3>2. PrefixOf(part[k], q) /\ part[k] = part[k - 1] \o piece(k)
      BY <1>3, <2>2, <3>1
    <3>3. PrefixOf(part[k - 1] \o piece(k), q) /\ part[k - 1] \in Texts /\ piece(k) \in Texts
      BY <1>3, <1>6, <3>1, <3>2
    <3>4. PrefixOf(part[k - 1], q)
      BY <1>2, <3>3, PrefixConcat
    <3> QED
      BY <1>1, <3>1, <3>4
  <2>3. \A j \in 0 .. n : j \in Q
    <3> HIDE DEF Q
    <3> QED
      BY <1>1, <2>1, <2>2, UpToInduction
  <2> TAKE k \in 0 .. n
  <2>4. n - k \in 0 .. n /\ n - (n - k) = k
    BY <1>1
  <2>5. n - k \in Q
    <3> HIDE DEF Q
    <3> QED
      BY <2>3, <2>4
  <2> QED
    BY <2>4, <2>5
<1>8. ASSUME NEW k \in 1 .. n, k - 1 \in R PROVE k \in R
  <2> DEFINE front == part[k - 1]
             more == piece(k)
             at == Len(front)
             done == SubSeq(text, 1, k - 1)
  <2>1. /\ k - 1 \in 0 .. n /\ k \in 0 .. n /\ part[k] = front \o more
        /\ front \in Texts /\ more \in Texts /\ part[k] \in Texts
    <3>1. k \in Nat /\ k - 1 \in 0 .. n /\ k \in 0 .. n
      BY <1>1
    <3> QED
      BY <1>3, <1>6, <3>1
  <2>2. /\ at \in Nat /\ Len(more) \in Nat /\ at + Len(more) <= Len(q)
        /\ \A i \in 1 .. Len(more) : q[at + i] = more[i]
    <3>1. PrefixOf(front \o more, q)
      BY <1>7, <2>1
    <3> QED
      BY <1>2, <2>1, <3>1, PrefixConcat, TextFacts
  <2>3. Len(part[k]) = at + Len(more)
    BY <2>1 DEF Texts
  <2>4. acc[at] = [out |-> done, skip |-> 0]
    BY <1>8
  <2>5. done \in Texts /\ Append(done, text[k]) = SubSeq(text, 1, k)
    <3>1. /\ 1 \in Nat \ {0} /\ k - 1 \in Int /\ k - 1 <= Len(text)
          /\ k \in Int /\ k <= Len(text)
      BY <1>1 DEF n
    <3>2. /\ done \in Texts /\ Len(done) = IF 1 <= k - 1 THEN (k - 1) - 1 + 1 ELSE 0
          /\ \A i \in 1 .. (k - 1) - 1 + 1 : done[i] = text[1 + i - 1]
      BY <3>1, Sub
    <3>3. /\ SubSeq(text, 1, k) \in Texts /\ Len(SubSeq(text, 1, k)) = IF 1 <= k THEN k - 1 + 1 ELSE 0
          /\ \A i \in 1 .. k - 1 + 1 : SubSeq(text, 1, k)[i] = text[1 + i - 1]
      BY <3>1, Sub
    <3> DEFINE s == SubSeq(text, 1, k)
    <3> HIDE DEF done, s
    <3>4. Len(done) = k - 1 /\ Len(s) = k
      BY <1>1, <3>2, <3>3 DEF s
    <3>5. \A i \in 1 .. k - 1 : done[i] = text[i]
      <4> TAKE i \in 1 .. k - 1
      <4>1. i \in 1 .. (k - 1) - 1 + 1 /\ 1 + i - 1 = i
        BY <1>1
      <4> QED
        BY <3>2, <4>1
    <3>6. \A i \in 1 .. k : s[i] = text[i]
      <4> TAKE i \in 1 .. k
      <4>1. i \in 1 .. k - 1 + 1 /\ 1 + i - 1 = i
        BY <1>1
      <4> QED
        BY <3>3, <4>1 DEF s
    <3>7. text[k] \in Token
      BY <1>1
    <3>8. /\ Append(done, text[k]) \in Seq(Token) /\ Len(Append(done, text[k])) = k
          /\ Append(done, text[k])[k] = text[k]
          /\ \A i \in 1 .. k - 1 : Append(done, text[k])[i] = done[i]
      BY <1>1, <3>2, <3>4, <3>7 DEF Texts
    <3>9. s \in Seq(Token) /\ Len(s) = Len(Append(done, text[k]))
      BY <3>3, <3>4, <3>8 DEF s, Texts
    <3>10. \A i \in 1 .. Len(s) : s[i] = Append(done, text[k])[i]
      <4> TAKE i \in 1 .. Len(s)
      <4>1. i \in 1 .. k - 1 \/ i = k
        BY <1>1, <3>4
      <4> QED
        BY <3>4, <3>5, <3>6, <3>8, <4>1
    <3> DEFINE longer == Append(done, text[k])
    <3> HIDE DEF longer
    <3>11. longer = s
      BY <3>8, <3>9, <3>10, SeqEqual DEF longer
    <3> QED
      BY <3>2, <3>11 DEF longer, s
  <2> HIDE DEF front, more, at, done
  <2>6. CASE k \notin places
    <3>1. more = <<text[k]>> /\ text[k] # "%"
      BY <1>5, <2>6 DEF more, piece
    <3>2. Len(more) = 1 /\ more[1] = text[k]
      BY <3>1
    <3>3. at + 1 \in 1 .. Len(q) /\ q[at + 1] = text[k] /\ (at + 1) - 1 = at
      BY <2>2, <3>2
    <3>4. acc[at + 1] = UnquoteStep(q, 2, acc[at], at + 1)
      BY <1>4, <3>3
    <3>5. acc[at + 1] = [out |-> Append(done, text[k]), skip |-> 0]
      <4>1. at + 1 \in Nat /\ 0 \in Nat /\ 0 = 0
        BY <2>2
      <4> QED
        <5>1. UnquoteStep(q, 2, [out |-> done, skip |-> 0], at + 1) = [out |-> Append(done, q[at + 1]), skip |-> 0]
          BY <3>1, <3>3, <4>1, UnquoteTurns, Zenon
        <5> QED
          BY <2>4, <3>3, <3>4, <5>1, Zenon
    <3> QED
      BY <2>1, <2>3, <2>5, <3>2, <3>5
  <2>7. CASE k \in places
    <3>1. text[k] \in DOMAIN Hex /\ Hex[text[k]] \in Token \X Token
      BY <1>5, <2>7, UriAssumption
    <3>2. PICK a, b : Hex[text[k]] = <<a, b>>
      BY <3>1
    <3>3. more = <<"%">> \o <<a, b>>
      BY <2>7, <3>2 DEF more, piece
    <3>5. Len(more) = 3 /\ more[1] = "%" /\ more[2] = a /\ more[3] = b
      <4>1. a \in Token /\ b \in Token /\ "%" \in Token
        BY <3>1, <3>2, HexTypes
      <4> DEFINE one == <<"%">>
                 two == <<a, b>>
      <4>2. /\ one \in Texts /\ two \in Texts /\ Len(one) = 1 /\ Len(two) = 2
            /\ one[1] = "%" /\ two[1] = a /\ two[2] = b
        BY <4>1 DEF Texts
      <4> HIDE DEF one, two
      <4>3. /\ Len(one \o two) = Len(one) + Len(two)
            /\ \A i \in 1 .. Len(one) : (one \o two)[i] = one[i]
            /\ \A i \in 1 .. Len(two) : (one \o two)[i + Len(one)] = two[i]
        BY <4>2, ConcatIs
      <4>4. 1 \in 1 .. 1 /\ 1 \in 1 .. 2 /\ 2 \in 1 .. 2 /\ 1 + 1 = 2 /\ 2 + 1 = 3 /\ 1 + 2 = 3
        OBVIOUS
      <4>5. /\ Len(one \o two) = 3 /\ (one \o two)[1] = one[1]
            /\ (one \o two)[2] = two[1] /\ (one \o two)[3] = two[2]
        BY <4>2, <4>3, <4>4, Zenon
      <4> QED
        BY <3>3, <4>2, <4>5 DEF one, two
    <3>6. /\ at + 1 \in 1 .. Len(q) /\ q[at + 1] = "%" /\ (at + 1) - 1 = at
          /\ at + 2 \in 1 .. Len(q) /\ q[at + 2] = a /\ (at + 2) - 1 = at + 1 /\ (at + 1) + 1 = at + 2
          /\ at + 3 \in 1 .. Len(q) /\ q[at + 3] = b /\ (at + 3) - 1 = at + 2 /\ (at + 1) + 2 = at + 3
          /\ Len(q) > (at + 1) + 1
      BY <1>2, <2>2, <3>5
    <3>7. Unhex(a, b) = text[k]
      BY <3>1, <3>2, UnhexIs
    <3>8. acc[at + 1] = [out |-> Append(done, text[k]), skip |-> 2]
      <4>1. acc[at + 1] = UnquoteStep(q, 2, acc[at], at + 1)
        BY <1>4, <3>6
      <4> QED
        <5>1. at + 1 \in Nat /\ 0 \in Nat /\ 0 = 0
          BY <2>2
        <5> QED
          <6>1. UnquoteStep(q, 2, [out |-> done, skip |-> 0], at + 1)
                  = [out |-> Append(done, Unhex(q[(at + 1) + 1], q[(at + 1) + 2])), skip |-> 2]
            BY <3>6, <5>1, UnquoteTurns, Zenon
          <6> QED
            BY <2>4, <3>6, <3>7, <4>1, <6>1, Zenon
    <3>9. acc[at + 2] = [out |-> Append(done, text[k]), skip |-> 1]
      <4>1. acc[at + 2] = UnquoteStep(q, 2, acc[at + 1], at + 2)
        BY <1>4, <3>6
      <4> QED
        <5>1. at + 2 \in Nat /\ 2 \in Nat /\ 2 > 0 /\ 2 - 1 = 1
          BY <2>2
        <5> QED
          <6> DEFINE longer == Append(done, text[k])
          <6> HIDE DEF longer
          <6>1. UnquoteStep(q, 2, [out |-> longer, skip |-> 2], at + 2) = [out |-> longer, skip |-> 1]
            BY <5>1, UnquoteTurns, Zenon
          <6> QED
            BY <3>8, <4>1, <5>1, <6>1, Zenon DEF longer
    <3>10. acc[at + 3] = [out |-> Append(done, text[k]), skip |-> 0]
      <4>1. acc[at + 3] = UnquoteStep(q, 2, acc[at + 2], at + 3)
        BY <1>4, <3>6
      <4> QED
        <5>1. at + 3 \in Nat /\ 1 \in Nat /\ 1 > 0 /\ 1 - 1 = 0
          BY <2>2
        <5> QED
          <6> DEFINE longer == Append(done, text[k])
          <6> HIDE DEF longer
          <6>1. UnquoteStep(q, 2, [out |-> longer, skip |-> 1], at + 3) = [out |-> longer, skip |-> 0]
            BY <5>1, UnquoteTurns
          <6> QED
            BY <3>9, <4>1, <5>1, <6>1, Zenon DEF longer
    <3> QED
      BY <2>1, <2>3, <2>5, <3>5, <3>10
  <2> QED
    BY <2>6, <2>7
<1>9. 0 \in R
  <2>1. SubSeq(text, 1, 0) = <<>> /\ Len(<<>>) = 0
    BY SubSeqEmpty
  <2> QED
    BY <1>1, <1>3, <1>4, <2>1
<1>10. n \in R
  <2>1. n \in 0 .. n
    BY <1>1
  <2> HIDE DEF R
  <2> QED
    BY <1>1, <1>8, <1>9, <2>1, UpToInduction
<1>11. SubSeq(text, 1, n) = text
  BY <1>1 DEF n, Texts
<1>12. UnquotedAll(q, 2).out = text
  <2>1. acc[Len(part[n])] = [out |-> SubSeq(text, 1, n), skip |-> 0] /\ part[n] = q
    BY <1>3, <1>10
  <2>2. acc[Len(q)] = [out |-> text, skip |-> 0]
    BY <1>11, <2>1, Zenon
  <2>3. UnquotedAll(q, 2) = [out |-> text, skip |-> 0]
    BY <1>4, <2>2, Zenon
  <2> QED
    BY <2>3
<1>13. rfc3986_unquote_safe(q) = SubSeq(text, 1, Or(Find("NUL", text, 1), n + 1) - 1)
  <2>1. rfc3986_unquote_safe(q) =
          SubSeq(UnquotedAll(q, 2).out, 1, Or(Find("NUL", UnquotedAll(q, 2).out, 1), Len(UnquotedAll(q, 2).out) + 1) - 1)
    BY Zenon DEF rfc3986_unquote_safe, Unquoted, UnquotedAll, UnquoteStep
  <2> QED
    BY <1>12, <2>1 DEF n
<1>14. Find("NUL", text, 1) = 0
  <2>1. 0 \in 0 .. n /\ 1 \in Nat \ {0} /\ \A k \in 1 .. n : text[k] # "NUL"
    BY <1>1
  <2> QED
    BY <2>1, FindIs DEF n
<1>15. Or(0, n + 1) - 1 = n
  BY <1>1 DEF Or
<1> QED
  BY <1>11, <1>13, <1>14, <1>15 DEF q

(* The library takes a link that was quoted for what it was *)
LEMMA SchemeIsThere ==
    ASSUME NEW text \in Texts
    PROVE  ParseCode(text) = "URI_SCHEME_MISSING" <=> SchemeEnd(text) = 0
BY DEF ParseCode, CodeAt, CodeOf

LEMMA CapturedIsLink ==
    ASSUME NEW text \in Captured, NEW places \in SUBSET Quotable(text),
           {k \in DOMAIN text : text[k] = "%"} \subseteq places
    PROVE  WithScheme(rfc3986_unquote_safe(QuotedAt(text, places))) = Link(text)
<1>1. text \in Texts /\ "NUL" \notin ToSet(text)
  BY RoundAssumption
<1>2. rfc3986_unquote_safe(QuotedAt(text, places)) = text
  BY <1>1, Unquotes
<1>3. WithScheme(text) = Link(text)
  BY <1>1, SchemeIsThere DEF WithScheme, Link
<1> QED
  BY <1>2, <1>3

-------------------------------------------------------------------------------
(* Where the parts stand in a URL that was printed *)

(* Behind the first "at" tokens of the text the part stands. *)
Stands(text, at, part) ==
    /\ at \in Nat /\ part \in Texts /\ at + Len(part) <= Len(text)
    /\ \A k \in 1 .. Len(part) : text[at + k] = part[k]

LEMMA StandsAll == \A text \in Texts : Stands(text, 0, text)
<1> TAKE text \in Texts
<1>1. Len(text) \in Nat
  BY TextFacts
<1>2. 0 + Len(text) <= Len(text) /\ 0 \in Nat /\ \A k \in 1 .. Len(text) : 0 + k = k
  BY <1>1
<1> QED
  BY <1>2 DEF Stands

LEMMA StandsPart ==
    ASSUME NEW text \in Texts, NEW at, NEW a \in Texts, NEW b \in Texts, Stands(text, at, a \o b)
    PROVE  Stands(text, at, a) /\ Stands(text, at + Len(a), b)
<1> DEFINE both == a \o b
<1>1. /\ both \in Texts /\ Len(both) = Len(a) + Len(b)
      /\ \A k \in 1 .. Len(a) : both[k] = a[k]
      /\ \A k \in 1 .. Len(b) : both[k + Len(a)] = b[k]
  BY ConcatIs
<1>2. at \in Nat /\ at + Len(both) <= Len(text) /\ \A k \in 1 .. Len(both) : text[at + k] = both[k]
  BY DEF Stands
<1> HIDE DEF both
<1>3. Len(a) \in Nat /\ Len(b) \in Nat /\ Len(text) \in Nat
  BY TextFacts
<1>4. \A k \in 1 .. Len(a) : text[at + k] = a[k]
  <2> TAKE k \in 1 .. Len(a)
  <2>1. k \in 1 .. Len(both)
    BY <1>1, <1>3
  <2> QED
    BY <1>1, <1>2, <2>1
<1>5. \A k \in 1 .. Len(b) : text[(at + Len(a)) + k] = b[k]
  <2> TAKE k \in 1 .. Len(b)
  <2>1. k + Len(a) \in 1 .. Len(both) /\ at + (k + Len(a)) = (at + Len(a)) + k
    BY <1>1, <1>2, <1>3
  <2> QED
    BY <1>1, <1>2, <2>1
<1> QED
  BY <1>1, <1>2, <1>3, <1>4, <1>5 DEF Stands

LEMMA StandsCut ==
    ASSUME NEW text \in Texts, NEW at, NEW part, Stands(text, at, part)
    PROVE  SubSeq(text, at + 1, at + Len(part)) = part
<1> DEFINE i == at + 1
           j == at + Len(part)
           s == SubSeq(text, i, j)
<1>1. /\ part \in Texts /\ Len(part) \in Nat /\ at \in Nat /\ Len(text) \in Nat
      /\ at + Len(part) <= Len(text) /\ \A k \in 1 .. Len(part) : text[at + k] = part[k]
  BY TextFacts DEF Stands
<1>2. /\ i \in Nat \ {0} /\ j \in Int /\ j <= Len(text) /\ j - i + 1 = Len(part)
      /\ (i <= j <=> Len(part) # 0)
      /\ \A k \in 1 .. Len(part) : i + k - 1 = at + k
  BY <1>1
<1> HIDE DEF i, j
<1>3. /\ s \in Texts /\ Len(s) = (IF i <= j THEN j - i + 1 ELSE 0)
      /\ \A k \in 1 .. j - i + 1 : s[k] = text[i + k - 1]
  BY <1>2, Sub
<1> HIDE DEF s
<1>4. Len(s) = Len(part)
  BY <1>2, <1>3
<1>5. \A k \in 1 .. Len(s) : s[k] = part[k]
  <2> TAKE k \in 1 .. Len(s)
  <2>1. k \in 1 .. Len(part) /\ s[k] = text[i + k - 1] /\ i + k - 1 = at + k
    BY <1>2, <1>3, <1>4
  <2> QED
    BY <1>1, <2>1
<1>6. s = part
  BY <1>1, <1>3, <1>4, <1>5, SeqEqual DEF Texts
<1> QED
  BY <1>6 DEF s, i, j

(* A token that is not in the part is not in its place *)
LEMMA StandsFree ==
    ASSUME NEW text \in Texts, NEW at, NEW part, NEW c, Stands(text, at, part), c \notin ToSet(part)
    PROVE  \A k \in at + 1 .. at + Len(part) : text[k] # c
<1>1. /\ part \in Texts /\ Len(part) \in Nat /\ at \in Nat
      /\ \A k \in 1 .. Len(part) : text[at + k] = part[k]
  BY TextFacts DEF Stands
<1>2. \A k \in 1 .. Len(part) : part[k] # c
  BY <1>1, TextFacts DEF ToSet
<1> TAKE k \in at + 1 .. at + Len(part)
<1>3. k - at \in 1 .. Len(part) /\ at + (k - at) = k
  BY <1>1
<1> QED
  BY <1>1, <1>2, <1>3

LEMMA StandsMark ==
    ASSUME NEW text \in Texts, NEW at, NEW c \in Token, Stands(text, at, <<c>>)
    PROVE  text[at + 1] = c /\ at + 1 <= Len(text) /\ at \in Nat
BY DEF Stands

(* The parts that uri_stringify prints, and the last token before each *)
HostPart(u) == IF u.is_ipv6 THEN <<"[">> \o u.hostname \o <<"]">> ELSE u.hostname
PortPart(u) == IF u.port > 0 THEN <<COLON>> \o Digits(u.port) ELSE <<>>
QueryPart(u) == Prefixed(QUESTION_MARK, u.query)
FragPart(u) == Prefixed(HASHTAG, u.fragment)

UserPlaceOf(u) == Len(u.scheme) + 3
HostPlaceOf(u) == UserPlaceOf(u) + Len(UserInfo(u))
PortPlaceOf(u) == HostPlaceOf(u) + Len(HostPart(u))
RootPlaceOf(u) == PortPlaceOf(u) + Len(PortPart(u))
PathPlaceOf(u) == RootPlaceOf(u) + 1
QueryPlaceOf(u) == PathPlaceOf(u) + Len(Text(u.path))
FragPlaceOf(u) == QueryPlaceOf(u) + Len(QueryPart(u))

LEMMA PartTypes ==
    ASSUME NEW u \in UriType, u.scheme # Null, u.hostname # Null
    PROVE  /\ u.scheme \in Texts /\ u.hostname \in Texts /\ UserInfo(u) \in Texts
           /\ Text(u.username) \in Texts /\ Text(u.password) \in Texts
           /\ HostPart(u) \in Texts /\ PortPart(u) \in Texts /\ Text(u.path) \in Texts
           /\ QueryPart(u) \in Texts /\ FragPart(u) \in Texts
<1>1. /\ u.scheme \in Texts /\ u.hostname \in Texts /\ u.port \in 0 .. MaxPort
      /\ \A part \in {u.username, u.password, u.path, u.query, u.fragment} : part \in PartType
  BY DEF UriType, PartType
<1>2. \A c \in {SLASH, QUESTION_MARK, HASHTAG, AT, COLON, "[", "]"} : c \in Token /\ Size[c] = 1 /\ <<c>> \in Texts
  BY MarkTypes, LengthOne
<1>3. \A s, t \in Texts : s \o t \in Texts
  BY LengthConcat
<1>4. <<>> \in Texts
  BY DEF Texts
<1>5. \A part \in {u.username, u.password, u.path} : Text(part) \in Texts
  BY <1>1, PartText
<1>6. UserInfo(u) \in Texts
  <2>1. Text(u.username) \o <<COLON>> \in Texts
    BY <1>2, <1>3, <1>5
  <2>2. Text(u.username) \o <<COLON>> \o Text(u.password) \in Texts
    BY <1>3, <1>5, <2>1
  <2>3. Text(u.username) \o <<COLON>> \o Text(u.password) \o <<AT>> \in Texts
    BY <1>2, <1>3, <2>2
  <2> QED
    BY <1>4, <2>3 DEF UserInfo
<1>7. HostPart(u) \in Texts
  <2>1. <<"[">> \o u.hostname \in Texts
    BY <1>1, <1>2, <1>3
  <2>2. <<"[">> \o u.hostname \o <<"]">> \in Texts
    BY <1>2, <1>3, <2>1
  <2> QED
    BY <1>1, <2>2 DEF HostPart
<1>8. PortPart(u) \in Texts
  <2>1. Digits(u.port) \in Texts
    BY <1>1, DigitsAre
  <2>2. <<COLON>> \o Digits(u.port) \in Texts
    BY <1>2, <1>3, <2>1
  <2> QED
    BY <1>4, <2>2 DEF PortPart
<1>9. QueryPart(u) \in Texts /\ FragPart(u) \in Texts
  BY <1>1, <1>2, RoomIs DEF QueryPart, FragPart
<1> QED
  BY <1>1, <1>5, <1>6, <1>7, <1>8, <1>9

LEMMA Layout ==
    ASSUME NEW u \in UriType, u.scheme # Null, u.hostname # Null
    PROVE  LET text == uri_stringify(u)
           IN  /\ text \in Texts /\ Len(text) = FragPlaceOf(u) + Len(FragPart(u))
               /\ Stands(text, 0, u.scheme) /\ Stands(text, Len(u.scheme), SCHEME_SEPARATOR)
               /\ Stands(text, UserPlaceOf(u), UserInfo(u)) /\ Stands(text, HostPlaceOf(u), HostPart(u))
               /\ Stands(text, PortPlaceOf(u), PortPart(u)) /\ Stands(text, RootPlaceOf(u), <<SLASH>>)
               /\ Stands(text, PathPlaceOf(u), Text(u.path)) /\ Stands(text, QueryPlaceOf(u), QueryPart(u))
               /\ Stands(text, FragPlaceOf(u), FragPart(u))
<1> DEFINE text == uri_stringify(u)
           a == u.scheme
           b == SCHEME_SEPARATOR
           c == UserInfo(u)
           d == HostPart(u)
           e == PortPart(u)
           f == <<SLASH>>
           g == Text(u.path)
           h == QueryPart(u)
           i == FragPart(u)
<1>1. /\ a \in Texts /\ b \in Texts /\ c \in Texts /\ d \in Texts /\ e \in Texts /\ f \in Texts
      /\ g \in Texts /\ h \in Texts /\ i \in Texts /\ Len(b) = 3 /\ Len(f) = 1
  BY PartTypes, MarkTypes, LengthOne DEF SCHEME_SEPARATOR
<1>2. text = a \o b \o c \o d \o e \o f \o g \o h \o i
  BY Zenon DEF uri_stringify, HostPart, PortPart, QueryPart, FragPart
<1>3. /\ UserPlaceOf(u) = Len(a) + 3 /\ HostPlaceOf(u) = UserPlaceOf(u) + Len(c)
      /\ PortPlaceOf(u) = HostPlaceOf(u) + Len(d) /\ RootPlaceOf(u) = PortPlaceOf(u) + Len(e)
      /\ PathPlaceOf(u) = RootPlaceOf(u) + 1 /\ QueryPlaceOf(u) = PathPlaceOf(u) + Len(g)
      /\ FragPlaceOf(u) = QueryPlaceOf(u) + Len(h)
  BY DEF UserPlaceOf, HostPlaceOf, PortPlaceOf, RootPlaceOf, PathPlaceOf, QueryPlaceOf, FragPlaceOf
<1> HIDE DEF text, a, b, c, d, e, f, g, h, i
<1> DEFINE t2 == a \o b
           t3 == t2 \o c
           t4 == t3 \o d
           t5 == t4 \o e
           t6 == t5 \o f
           t7 == t6 \o g
           t8 == t7 \o h
<1>4. text = t8 \o i
  BY <1>2
<1>5. /\ Len(a) \in Nat /\ Len(c) \in Nat /\ Len(d) \in Nat /\ Len(e) \in Nat /\ Len(g) \in Nat
      /\ Len(h) \in Nat /\ Len(i) \in Nat
  BY <1>1, TextFacts
<1>6. \A s, t \in Texts : s \o t \in Texts /\ Len(s \o t) = Len(s) + Len(t)
  BY ConcatIs
<1>7. t2 \in Texts /\ Len(t2) = UserPlaceOf(u) /\ UserPlaceOf(u) \in Nat
  <2>1. t2 \in Texts /\ Len(t2) = Len(a) + Len(b)
    BY <1>1, <1>6, Zenon
  <2> HIDE DEF t2
  <2> QED
    BY <1>1, <1>3, <1>5, <2>1
<1>8. t3 \in Texts /\ Len(t3) = HostPlaceOf(u) /\ HostPlaceOf(u) \in Nat
  <2>1. t3 \in Texts /\ Len(t3) = Len(t2) + Len(c)
    BY <1>1, <1>6, <1>7, Zenon
  <2> HIDE DEF t3
  <2> QED
    BY <1>1, <1>3, <1>5, <1>7, <2>1
<1>9. t4 \in Texts /\ Len(t4) = PortPlaceOf(u) /\ PortPlaceOf(u) \in Nat
  <2>1. t4 \in Texts /\ Len(t4) = Len(t3) + Len(d)
    BY <1>1, <1>6, <1>8, Zenon
  <2> HIDE DEF t4
  <2> QED
    BY <1>1, <1>3, <1>5, <1>8, <2>1
<1>10. t5 \in Texts /\ Len(t5) = RootPlaceOf(u) /\ RootPlaceOf(u) \in Nat
  <2>1. t5 \in Texts /\ Len(t5) = Len(t4) + Len(e)
    BY <1>1, <1>6, <1>9, Zenon
  <2> HIDE DEF t5
  <2> QED
    BY <1>1, <1>3, <1>5, <1>9, <2>1
<1>11. t6 \in Texts /\ Len(t6) = PathPlaceOf(u) /\ PathPlaceOf(u) \in Nat
  <2>1. t6 \in Texts /\ Len(t6) = Len(t5) + Len(f)
    BY <1>1, <1>6, <1>10, Zenon
  <2> HIDE DEF t6
  <2> QED
    BY <1>1, <1>3, <1>5, <1>10, <2>1
<1>12. t7 \in Texts /\ Len(t7) = QueryPlaceOf(u) /\ QueryPlaceOf(u) \in Nat
  <2>1. t7 \in Texts /\ Len(t7) = Len(t6) + Len(g)
    BY <1>1, <1>6, <1>11, Zenon
  <2> HIDE DEF t7
  <2> QED
    BY <1>1, <1>3, <1>5, <1>11, <2>1
<1>13. t8 \in Texts /\ Len(t8) = FragPlaceOf(u) /\ FragPlaceOf(u) \in Nat
  <2>1. t8 \in Texts /\ Len(t8) = Len(t7) + Len(h)
    BY <1>1, <1>6, <1>12, Zenon
  <2> HIDE DEF t8
  <2> QED
    BY <1>1, <1>3, <1>5, <1>12, <2>1
<1> HIDE DEF t2, t3, t4, t5, t6, t7, t8
<1>14. text \in Texts /\ Len(text) = FragPlaceOf(u) + Len(i)
  <2>1. t8 \o i \in Texts /\ Len(t8 \o i) = Len(t8) + Len(i)
    BY <1>1, <1>6, <1>13, Zenon
  <2> QED
    BY <1>4, <1>13, <2>1
<1>15. \A s, t \in Texts : Stands(text, 0, s \o t) => Stands(text, 0, s) /\ Stands(text, Len(s), t)
  <2> TAKE s, t \in Texts
  <2> HAVE Stands(text, 0, s \o t)
  <2>1. Stands(text, 0, s) /\ Stands(text, 0 + Len(s), t) /\ 0 + Len(s) = Len(s)
    BY <1>14, StandsPart, TextFacts
  <2> QED
    BY <2>1
<1>16. Stands(text, 0, t8) /\ Stands(text, FragPlaceOf(u), i)
  <2>1. Stands(text, 0, t8 \o i)
    BY <1>4, <1>14, StandsAll
  <2> QED
    BY <1>1, <1>13, <1>15, <2>1, Zenon
<1>17. Stands(text, 0, t7) /\ Stands(text, QueryPlaceOf(u), h)
  BY <1>1, <1>12, <1>15, <1>16, Zenon DEF t8
<1>18. Stands(text, 0, t6) /\ Stands(text, PathPlaceOf(u), g)
  BY <1>1, <1>11, <1>15, <1>17, Zenon DEF t7
<1>19. Stands(text, 0, t5) /\ Stands(text, RootPlaceOf(u), f)
  BY <1>1, <1>10, <1>15, <1>18, Zenon DEF t6
<1>20. Stands(text, 0, t4) /\ Stands(text, PortPlaceOf(u), e)
  BY <1>1, <1>9, <1>15, <1>19, Zenon DEF t5
<1>21. Stands(text, 0, t3) /\ Stands(text, HostPlaceOf(u), d)
  BY <1>1, <1>8, <1>15, <1>20, Zenon DEF t4
<1>22. Stands(text, 0, t2) /\ Stands(text, UserPlaceOf(u), c)
  BY <1>1, <1>7, <1>15, <1>21, Zenon DEF t3
<1>23. Stands(text, 0, a) /\ Stands(text, Len(a), b)
  BY <1>1, <1>15, <1>22, Zenon DEF t2
<1> QED
  BY <1>14, <1>16, <1>17, <1>18, <1>19, <1>20, <1>21, <1>22, <1>23
     DEF text, a, b, c, d, e, f, g, h, i

-------------------------------------------------------------------------------
(* What the parts of a URL have that was parsed *)

Plain(u) ==
    /\ ToSet(u.scheme) \cap Delimiters = {} /\ Lowered(u.scheme) = u.scheme
    /\ ToSet(Text(u.username)) \cap {AT, COLON} = {} /\ AT \notin ToSet(Text(u.password))
    /\ u.is_ipv6 => ToSet(u.hostname) \cap (Delimiters \ {COLON}) = {}
    /\ ~u.is_ipv6 => ToSet(u.hostname) \cap Delimiters = {} /\ Lowered(u.hostname) = u.hostname
    /\ QUESTION_MARK \notin ToSet(Text(u.path))
    /\ u.query # Null => HASHTAG \notin ToSet(Text(u.path)) /\ HASHTAG \notin ToSet(u.query)
    /\ u.query = Null /\ u.fragment = Null =>
         \A k \in 1 .. Len(Text(u.path)) - 1 : Text(u.path)[k] # HASHTAG

LEMMA SubHas ==
    ASSUME NEW text \in Texts, NEW i \in Nat \ {0}, NEW j \in Int, j <= Len(text)
    PROVE  \A c : c \in ToSet(SubSeq(text, i, j)) <=> \E k \in i .. j : text[k] = c
<1> DEFINE s == SubSeq(text, i, j)
<1>1. /\ s \in Texts /\ Len(s) = (IF i <= j THEN j - i + 1 ELSE 0)
      /\ \A k \in 1 .. j - i + 1 : s[k] = text[i + k - 1]
  BY Sub
<1> HIDE DEF s
<1>2. Len(s) \in Nat /\ \A c : c \in ToSet(s) <=> \E k \in 1 .. Len(s) : s[k] = c
  BY <1>1, TextFacts DEF ToSet
<1> TAKE c
<1>3. ASSUME c \in ToSet(s) PROVE \E k \in i .. j : text[k] = c
  <2>1. PICK k \in 1 .. Len(s) : s[k] = c
    BY <1>2, <1>3
  <2>2. k \in 1 .. j - i + 1 /\ i + k - 1 \in i .. j
    BY <1>1, <1>2
  <2> QED
    BY <1>1, <2>1, <2>2
<1>4. ASSUME NEW k \in i .. j, text[k] = c PROVE c \in ToSet(s)
  <2>1. k - i + 1 \in 1 .. j - i + 1 /\ k - i + 1 \in 1 .. Len(s) /\ i + (k - i + 1) - 1 = k
    BY <1>1, <1>2
  <2> QED
    BY <1>1, <1>2, <1>4, <2>1
<1> QED
  BY <1>3, <1>4 DEF s

(* In lower case a text is the same once more, and has no other marks *)
LEMMA LoweredPlain ==
    ASSUME NEW text \in Texts, NEW marks, marks \cap Alnum = {}, ToSet(text) \cap marks = {}
    PROVE  ToSet(Lowered(text)) \cap marks = {} /\ Lowered(Lowered(text)) = Lowered(text)
<1> DEFINE low == Lowered(text)
<1>1. /\ low \in Texts /\ Len(low) = Len(text) /\ Len(text) \in Nat
      /\ \A k \in 1 .. Len(text) : low[k] = IF text[k] \in Alnum THEN Lower[text[k]] ELSE text[k]
      /\ \A k \in 1 .. Len(text) : text[k] \notin marks
  BY LoweredType, TextFacts DEF ToSet
<1> HIDE DEF low
<1>2. \A k \in 1 .. Len(low) : low[k] \notin marks
  BY <1>1, WordTypes
<1>3. ToSet(low) \cap marks = {}
  BY <1>1, <1>2, TextFacts DEF ToSet
<1> DEFINE again == Lowered(low)
<1>4. /\ again \in Texts /\ Len(again) = Len(low)
      /\ \A k \in 1 .. Len(low) : again[k] = IF low[k] \in Alnum THEN Lower[low[k]] ELSE low[k]
  BY <1>1, LoweredType
<1> HIDE DEF again
<1>5. \A w \in Alnum : Lower[w] \in Alnum /\ Lower[Lower[w]] = Lower[w]
  BY UriAssumption
<1>6. \A k \in 1 .. Len(again) : again[k] = low[k]
  BY <1>1, <1>4, <1>5
<1>7. again = low
  BY <1>1, <1>4, <1>6, SeqEqual DEF Texts
<1> QED
  BY <1>3, <1>7 DEF low, again

(* A hostname that is valid has letters, digits, "-" and "." only *)
LEMMA HostnamePlain ==
    ASSUME NEW host \in Texts, HostnameIsValid(host)
    PROVE  ToSet(host) \subseteq Alnum \cup {"-", "."}
<1> DEFINE p == Pieces(host, {"."})
<1>1. /\ Len(p) \in Nat \ {0} /\ DOMAIN p = 1 .. Len(p) /\ Len(host) \in Nat
      /\ p[Len(p)].end = Len(host) + 1
      /\ \A n \in 1 .. Len(p) - 1 : p[n].end <= Len(host)
      /\ \A n \in 1 .. Len(p) :
           /\ StartOf(p, n) \in 1 .. Len(host) + 1
           /\ p[n].end = Before(host, StartOf(p, n), {"."})
           /\ p[n].text = SubSeq(host, StartOf(p, n), p[n].end - 1)
           /\ p[n].end \in 1 .. Len(host) + 1
  BY PiecesAre, TextFacts
<1>2. \A n \in 1 .. Len(p) : ToSet(p[n].text) \subseteq Alnum \cup {"-"}
  BY <1>1 DEF HostnameIsValid, LabelIsValid
<1> HIDE DEF p
<1>3. ASSUME NEW k \in 1 .. Len(host) PROVE host[k] \in Alnum \cup {"-", "."}
  <2> DEFINE before == {n \in 1 .. Len(p) : StartOf(p, n) <= k}
             m == Max(before)
  <2>1. 1 \in before
    BY <1>1 DEF StartOf
  <2>2. m \in before /\ \A n \in before : m >= n
    <3>1. before \in SUBSET (1 .. Len(p)) /\ before # {} /\ Len(p) \in Nat
      BY <1>1, <2>1
    <3> HIDE DEF before
    <3> QED
      BY <3>1, MaxOf
  <2>3. m \in 1 .. Len(p) /\ StartOf(p, m) <= k /\ m \in Nat
    BY <1>1, <2>2
  <2>4. m # Len(p) => k <= p[m].end
    <3> SUFFICES ASSUME m # Len(p) PROVE k <= p[m].end
      OBVIOUS
    <3> HIDE DEF m
    <3>1. m + 1 \in 1 .. Len(p) /\ m + 1 # 1 /\ (m + 1) - 1 = m /\ ~(m >= m + 1)
      <4> DEFINE n == Len(p)
      <4>1. n \in Nat /\ m \in 1 .. n /\ m # n
        BY <1>1, <2>3
      <4> HIDE DEF n
      <4>2. m + 1 \in 1 .. n /\ m + 1 # 1 /\ (m + 1) - 1 = m /\ ~(m >= m + 1)
        BY <4>1
      <4> QED
        BY <4>2 DEF n
    <3>2. ~(StartOf(p, m + 1) <= k)
      BY <2>2, <3>1
    <3>3. StartOf(p, m + 1) = p[m].end + 1
      BY <3>1 DEF StartOf
    <3>4. p[m].end \in Nat
      BY <1>1, <2>3
    <3> QED
      BY <3>2, <3>3, <3>4
  <2>5. k <= p[m].end
    <3>1. m = Len(p) => k <= p[m].end
      BY <1>1
    <3> QED
      BY <2>4, <3>1
  <2> HIDE DEF m
  <2> DEFINE s == StartOf(p, m)
             e == p[m].end
  <2>6. s \in 1 .. Len(host) + 1 /\ e = Before(host, s, {"."}) /\ e \in 1 .. Len(host) + 1
        /\ p[m].text = SubSeq(host, s, e - 1) /\ s <= k /\ k <= e
    BY <1>1, <2>3, <2>5
  <2> HIDE DEF s, e
  <2>7. CASE k = e
    <3>1. host[e] \in {"."}
      BY <2>6, <2>7, FoundBefore
    <3> QED
      BY <2>7, <3>1
  <2>8. CASE k # e
    <3>1. k \in s .. e - 1 /\ s \in Nat \ {0} /\ e - 1 \in Int /\ e - 1 <= Len(host)
      BY <1>1, <2>6, <2>8
    <3>2. host[k] \in ToSet(SubSeq(host, s, e - 1))
      BY <3>1, SubHas
    <3> QED
      BY <1>2, <2>3, <2>6, <3>2
  <2> QED
    BY <2>7, <2>8
<1> QED
  BY <1>3, TextFacts DEF ToSet

LEMMA OthersPlain == {"+", ".", "-"} \cap Delimiters = {} /\ Delimiters \cap Alnum = {}
BY UriAssumption DEF Delimiters, SLASH, QUESTION_MARK, HASHTAG, AT, COLON

(* The scheme and the user *)
LEMMA FrontPlain ==
    ASSUME NEW text \in Texts, ParseCode(text) = "SUCCESS"
    PROVE  LET u == parse_uri(text)
           IN  /\ ToSet(u.scheme) \cap Delimiters = {} /\ Lowered(u.scheme) = u.scheme
               /\ ToSet(Text(u.username)) \cap {AT, COLON} = {} /\ AT \notin ToSet(Text(u.password))
<1> DEFINE u == parse_uri(text)
           p == Places(text)
           s == SubSeq(text, 1, SchemeEnd(text) - 1)
<1>1. Accepts(text, p) /\ SchemeEnd(text) # 0 /\ SchemeEnd(text) \in Nat /\ SchemeEnd(text) <= Len(text)
      /\ Len(text) \in Nat
  BY SuccessIs, SchemeFound, TextFacts DEF Accepts
<1>2. /\ u.scheme = Lowered(s)
      /\ u.username = OrNull(Username(text, p)) /\ u.password = OrNull(Password(text, p))
  BY PartsAre
<1>3. /\ Username(text, p) \in Texts /\ Password(text, p) \in Texts
  BY <1>1, ParsedTexts
<1>4. /\ p.start \in 4 .. Len(text) + 1 /\ p.at = Find(AT, text, p.start)
  BY <1>1, PlacesAre
<1> HIDE DEF u, p
<1>5. Text(u.username) = Username(text, p) /\ Text(u.password) = Password(text, p)
  BY <1>2, <1>3, TextOrNull
<1>6. ToSet(u.scheme) \cap Delimiters = {} /\ Lowered(u.scheme) = u.scheme
  <2>1. ToSet(s) \subseteq Alnum \cup {"+", ".", "-"}
    BY <1>1 DEF Accepts, SchemeIsValid
  <2>2. s \in Texts
    <3>1. 1 \in Nat \ {0} /\ SchemeEnd(text) - 1 \in Int /\ SchemeEnd(text) - 1 <= Len(text)
      BY <1>1
    <3> QED
      BY <3>1, Sub
  <2> HIDE DEF s
  <2>3. ToSet(s) \cap Delimiters = {}
    BY <2>1, OthersPlain
  <2> QED
    BY <1>2, <2>2, <2>3, OthersPlain, LoweredPlain
<1>7. /\ \A c \in {AT, COLON} : c \notin ToSet(Username(text, p))
      /\ AT \notin ToSet(Password(text, p))
  <2>1. CASE p.at = 0
    BY <2>1 DEF Username, Password, ToSet
  <2>2. CASE p.at # 0
    <3> DEFINE colon == Find(COLON, text, p.start)
               e == UserEnd(text, p)
    <3>1. p.start \in Nat \ {0}
      BY <1>1, <1>4
    <3>2. /\ p.at \in p.start .. Len(text) /\ \A k \in p.start .. p.at - 1 : text[k] # AT
          /\ colon \in 0 .. Len(text)
          /\ colon # 0 => colon \in p.start .. Len(text) /\ \A k \in p.start .. colon - 1 : text[k] # COLON
          /\ colon = 0 => \A k \in p.start .. Len(text) : text[k] # COLON
      BY <1>4, <2>2, <3>1, Found
    <3>3. e = IF colon = 0 \/ colon > p.at THEN p.at ELSE colon
      BY DEF UserEnd
    <3> HIDE DEF colon, e
    <3>4. /\ e \in p.start .. p.at /\ \A k \in p.start .. e - 1 : text[k] # COLON /\ text[k] # AT
          /\ \A k \in e + 1 .. p.at - 1 : text[k] # AT
      BY <1>1, <3>1, <3>2, <3>3
    <3>5. Username(text, p) = SubSeq(text, p.start, e - 1) /\ Password(text, p) = SubSeq(text, e + 1, p.at - 1)
      BY <2>2 DEF Username, Password, e
    <3>6. /\ e - 1 \in Int /\ e - 1 <= Len(text) /\ e + 1 \in Nat \ {0} /\ p.at - 1 \in Int /\ p.at - 1 <= Len(text)
      BY <1>1, <3>1, <3>2, <3>4
    <3>7. \A c \in {AT, COLON} : c \notin ToSet(Username(text, p))
      <4>1. \A c : c \in ToSet(Username(text, p)) <=> \E k \in p.start .. e - 1 : text[k] = c
        <5> DEFINE i == p.start
                   j == e - 1
        <5>1. i \in Nat \ {0} /\ j \in Int /\ j <= Len(text)
          BY <3>1, <3>6
        <5> HIDE DEF i, j
        <5>2. \A c : c \in ToSet(SubSeq(text, i, j)) <=> \E k \in i .. j : text[k] = c
          BY <5>1, SubHas
        <5> QED
          BY <3>5, <5>2, Zenon DEF i, j
      <4> QED
        BY <3>4, <4>1
    <3>8. AT \notin ToSet(Password(text, p))
      BY <3>4, <3>5, <3>6, SubHas
    <3> QED
      BY <3>7, <3>8
  <2> QED
    BY <2>1, <2>2
<1> QED
  BY <1>5, <1>6, <1>7 DEF u

LEMMA HostPlain ==
    ASSUME NEW text \in Texts, ParseCode(text) = "SUCCESS"
    PROVE  LET u == parse_uri(text)
           IN  /\ u.is_ipv6 => ToSet(u.hostname) \cap (Delimiters \ {COLON}) = {}
               /\ ~u.is_ipv6 => ToSet(u.hostname) \cap Delimiters = {} /\ Lowered(u.hostname) = u.hostname
<1> DEFINE u == parse_uri(text)
           p == Places(text)
           h == HostText(text, p)
<1>1. Accepts(text, p) /\ SchemeEnd(text) # 0
  BY SuccessIs DEF Accepts
<1>2. u.hostname = (IF p.v6 THEN h ELSE Lowered(h)) /\ u.is_ipv6 = p.v6
  BY PartsAre
<1>3. h \in Texts
  BY <1>1, ParsedTexts
<1>4. (p.v6 => AddressIsValid(h)) /\ (~p.v6 => HostnameIsValid(h))
  BY <1>1 DEF Accepts
<1> HIDE DEF u, p, h
<1>5. CASE p.v6
  <2>1. h \in Addresses
    BY <1>4, <1>5 DEF AddressIsValid
  <2>2. ToSet(h) \cap (Delimiters \ {COLON}) = {}
    BY <2>1, UriAssumption
  <2> QED
    BY <1>2, <1>5, <2>2 DEF u
<1>6. CASE ~p.v6
  <2>1. ToSet(h) \subseteq Alnum \cup {"-", "."}
    BY <1>3, <1>4, <1>6, HostnamePlain
  <2>2. ToSet(h) \cap Delimiters = {}
    BY <2>1, OthersPlain
  <2>3. ToSet(Lowered(h)) \cap Delimiters = {} /\ Lowered(Lowered(h)) = Lowered(h)
    BY <1>3, <2>2, OthersPlain, LoweredPlain
  <2> QED
    BY <1>2, <1>6, <2>3 DEF u
<1> QED
  BY <1>5, <1>6

LEMMA TailPlain ==
    ASSUME NEW text \in Texts, ParseCode(text) = "SUCCESS"
    PROVE  LET u == parse_uri(text)
           IN  /\ u.query # Null => HASHTAG \notin ToSet(Text(u.path)) /\ HASHTAG \notin ToSet(u.query)
               /\ u.query = Null /\ u.fragment = Null =>
                    \A k \in 1 .. Len(Text(u.path)) - 1 : Text(u.path)[k] # HASHTAG
<1> DEFINE u == parse_uri(text)
           p == Places(text)
           n == Len(text)
<1>1. Accepts(text, p) /\ SchemeEnd(text) # 0 /\ n \in Nat
  BY SuccessIs, TextFacts DEF Accepts
<1>2. /\ u.path = PartAfter(text, p.path, PathEnd(text, p))
      /\ u.query = PartAfter(text, p.query, QueryEnd(text, p))
      /\ u.fragment = PartAfter(text, p.fragment, n)
  BY PartsAre
<1>3. p.host \in 1 .. n + 1 /\ p.fragment = Find(HASHTAG, text, p.host)
  BY <1>1, PlacesAre
<1>4. /\ p.path \in 0 .. n /\ (p.path # 0 => p.path \in p.host .. n)
      /\ p.query \in 0 .. n /\ (p.query # 0 => p.query \in p.host .. n)
      /\ p.fragment \in 0 .. n
  BY <1>1, PlacesFound
<1>5. /\ p.query # 0 => ~(QueryEnd(text, p) < p.query)
      /\ QueryEnd(text, p) = IF p.fragment = 0 THEN n ELSE p.fragment - 1
      /\ PathEnd(text, p) = IF p.query = 0 THEN n ELSE p.query - 1
  BY <1>1 DEF Accepts, QueryEnd, PathEnd
<1> DEFINE host == p.host
           path == p.path
           query == p.query
           frag == p.fragment
           qend == QueryEnd(text, p)
           pend == PathEnd(text, p)
<1> HIDE DEF u, p, n, host, path, query, frag, qend, pend
<1>6. /\ host \in 1 .. n + 1 /\ frag \in 0 .. n
      /\ frag = 0 => \A k \in host .. n : text[k] # HASHTAG
      /\ frag # 0 => \A k \in host .. frag - 1 : text[k] # HASHTAG
  <2>1. host \in Nat \ {0} /\ frag = Find(HASHTAG, text, host)
    BY <1>1, <1>3 DEF host, frag
  <2> QED
    BY <1>3, <1>4, <2>1, Found DEF n, host, frag
<1>7. /\ path \in 0 .. n /\ (path # 0 => path \in host .. n)
      /\ query \in 0 .. n /\ (query # 0 => query \in host .. n)
      /\ query # 0 => ~(qend < query)
      /\ qend = (IF frag = 0 THEN n ELSE frag - 1) /\ pend = IF query = 0 THEN n ELSE query - 1
  BY <1>4, <1>5 DEF host, path, query, frag, qend, pend
<1>8. /\ \A k \in host .. qend : text[k] # HASHTAG
      /\ pend \in 0 .. n /\ qend \in 0 .. n /\ (query # 0 => pend <= qend)
  BY <1>1, <1>6, <1>7
<1> DEFINE x == IF path = 0 THEN <<>> ELSE SubSeq(text, path + 1, pend)
<1>9. /\ x \in Texts /\ Text(u.path) = x /\ Len(x) \in Nat
      /\ path = 0 => Len(x) = 0
      /\ path # 0 => /\ Len(x) = IF path + 1 <= pend THEN pend - (path + 1) + 1 ELSE 0
                     /\ \A k \in 1 .. pend - (path + 1) + 1 : x[k] = text[(path + 1) + k - 1]
  <2>1. CASE path = 0
    <3>1. x = <<>> /\ Text(u.path) = <<>> /\ <<>> \in Texts /\ Len(<<>>) = 0
      BY <1>2, <2>1 DEF PartAfter, Text, path, Texts
    <3> QED
      BY <2>1, <3>1
  <2>2. CASE path # 0
    <3>1. x = SubSeq(text, path + 1, pend) /\ path + 1 \in Nat \ {0} /\ pend \in Int /\ pend <= Len(text)
      BY <1>1, <1>7, <1>8, <2>2 DEF n
    <3> HIDE DEF x
    <3>2. /\ x \in Texts /\ Len(x) = IF path + 1 <= pend THEN pend - (path + 1) + 1 ELSE 0
          /\ \A k \in 1 .. pend - (path + 1) + 1 : x[k] = text[(path + 1) + k - 1]
      BY <3>1, Sub
    <3>3. u.path = OrNull(x)
      BY <1>2, <2>2, <3>1 DEF PartAfter, path, pend
    <3> QED
      BY <2>2, <3>2, <3>3, TextOrNull, TextFacts
  <2> QED
    BY <2>1, <2>2
<1> HIDE DEF x
<1>10. ASSUME NEW k \in 1 .. Len(x)
       PROVE  /\ path # 0 /\ path + k \in host .. pend /\ x[k] = text[path + k]
              /\ pend = path + Len(x)
  <2>1. path # 0
    BY <1>9
  <2>2. path \in host .. n /\ host \in 1 .. n + 1 /\ pend \in 0 .. n
    BY <1>6, <1>7, <1>8, <2>1
  <2>3. Len(x) = IF path + 1 <= pend THEN pend - (path + 1) + 1 ELSE 0
    BY <1>9, <2>1
  <2>4. pend = path + Len(x)
    BY <1>1, <1>9, <2>2, <2>3
  <2>5. k \in 1 .. pend - (path + 1) + 1 /\ (path + 1) + k - 1 = path + k /\ path + k \in host .. pend
    BY <1>1, <1>9, <2>2, <2>4
  <2>6. x[k] = text[(path + 1) + k - 1]
    BY <1>9, <2>1, <2>5
  <2> QED
    BY <2>1, <2>4, <2>5, <2>6
<1>11. ASSUME u.query # Null PROVE HASHTAG \notin ToSet(x) /\ HASHTAG \notin ToSet(u.query)
  <2>1. query # 0 /\ u.query = OrNull(SubSeq(text, query + 1, qend))
    BY <1>2, <1>11 DEF PartAfter, query, qend
  <2>2. \A k \in 1 .. Len(x) : x[k] # HASHTAG
    <3> TAKE k \in 1 .. Len(x)
    <3>1. path + k \in host .. qend /\ x[k] = text[path + k]
      BY <1>1, <1>6, <1>7, <1>8, <1>10, <2>1
    <3> QED
      BY <1>8, <3>1
  <2>3. HASHTAG \notin ToSet(x)
    BY <1>9, <2>2, TextFacts DEF ToSet
  <2>4. query + 1 \in Nat \ {0} /\ qend \in Int /\ qend <= Len(text) /\ query \in host .. n
    BY <1>1, <1>7, <1>8, <2>1 DEF n
  <2>5. HASHTAG \notin ToSet(SubSeq(text, query + 1, qend))
    <3>1. \A k \in query + 1 .. qend : text[k] # HASHTAG
      BY <1>6, <1>8, <2>4
    <3> QED
      BY <2>4, <3>1, SubHas
  <2>6. u.query = SubSeq(text, query + 1, qend)
    BY <1>11, <2>1 DEF OrNull
  <2> QED
    BY <2>3, <2>5, <2>6
<1>12. ASSUME u.query = Null, u.fragment = Null, NEW k \in 1 .. Len(x) - 1 PROVE x[k] # HASHTAG
  <2>1. frag # 0 => frag = n
    <3> SUFFICES ASSUME frag # 0, frag # n PROVE FALSE
      OBVIOUS
    <3> DEFINE f == SubSeq(text, frag + 1, n)
    <3>1. frag + 1 \in Nat \ {0} /\ n \in Int /\ n <= Len(text) /\ frag + 1 <= n
      BY <1>1, <1>6 DEF n
    <3>2. f \in Texts /\ Len(f) = IF frag + 1 <= n THEN n - (frag + 1) + 1 ELSE 0
      BY <3>1, Sub
    <3>3. u.fragment = OrNull(f)
      BY <1>2 DEF PartAfter, frag
    <3> HIDE DEF f
    <3>4. Len(f) # 0 /\ Len(<<>>) = 0
      BY <1>6, <3>1, <3>2
    <3> QED
      BY <1>12, <3>2, <3>3, <3>4, NullIsNone DEF OrNull
  <2>2. k \in 1 .. Len(x) /\ k + 1 \in 1 .. Len(x)
    BY <1>9
  <2>3. path + k \in host .. n - 1 /\ x[k] = text[path + k]
    BY <1>1, <1>6, <1>7, <1>8, <1>10, <2>2
  <2>4. frag = 0 \/ path + k \in host .. frag - 1
    BY <2>1, <2>3
  <2>5. path + k \in host .. n
    BY <1>1, <1>6, <2>3
  <2> QED
    BY <1>6, <2>3, <2>4, <2>5
<1> QED
  BY <1>9, <1>11, <1>12 DEF u

LEMMA ParsedPlain ==
    ASSUME NEW text \in Texts, ParseCode(text) = "SUCCESS"
    PROVE  Plain(parse_uri(text))
<1>1. QUESTION_MARK \notin ToSet(Text(parse_uri(text).path))
  BY ParsedType DEF IsParsed
<1> DEFINE u == parse_uri(text)
<1>2. /\ ToSet(u.scheme) \cap Delimiters = {} /\ Lowered(u.scheme) = u.scheme
      /\ ToSet(Text(u.username)) \cap {AT, COLON} = {} /\ AT \notin ToSet(Text(u.password))
  BY FrontPlain
<1>3. /\ u.is_ipv6 => ToSet(u.hostname) \cap (Delimiters \ {COLON}) = {}
      /\ ~u.is_ipv6 => ToSet(u.hostname) \cap Delimiters = {} /\ Lowered(u.hostname) = u.hostname
  BY HostPlain
<1>4. /\ u.query # Null => HASHTAG \notin ToSet(Text(u.path)) /\ HASHTAG \notin ToSet(u.query)
      /\ u.query = Null /\ u.fragment = Null =>
           \A k \in 1 .. Len(Text(u.path)) - 1 : Text(u.path)[k] # HASHTAG
  BY TailPlain
<1> HIDE DEF u
<1>5. QUESTION_MARK \notin ToSet(Text(u.path))
  BY <1>1 DEF u
<1>6. Plain(u)
  BY <1>2, <1>3, <1>4, <1>5, Zenon DEF Plain
<1> QED
  BY <1>6 DEF u

(* A query that got its "=" is as plain as it was *)
LEMMA RebuiltPlain ==
    ASSUME NEW u \in UriType, Plain(u)
    PROVE  LET v == [u EXCEPT !.query = Rebuilt(@)]
           IN  /\ v \in UriType /\ Plain(v)
               /\ v.scheme = u.scheme /\ v.username = u.username /\ v.password = u.password
               /\ v.has_authentication = u.has_authentication /\ v.hostname = u.hostname
               /\ v.is_ipv6 = u.is_ipv6 /\ v.port = u.port /\ v.path = u.path
               /\ v.query = Rebuilt(u.query) /\ v.fragment = u.fragment
               /\ v.query = Null <=> u.query = Null
               /\ HidesUser(v) <=> HidesUser(u)
<1> DEFINE v == [u EXCEPT !.query = Rebuilt(u.query)]
<1>1. u.query \in PartType /\ Rebuilt(u.query) \in PartType
  BY RebuiltType DEF UriType
<1> DEFINE q == Rebuilt(u.query)
<1> HIDE DEF q
<1>2. /\ v \in UriType
      /\ v.scheme = u.scheme /\ v.username = u.username /\ v.password = u.password
      /\ v.has_authentication = u.has_authentication /\ v.hostname = u.hostname
      /\ v.is_ipv6 = u.is_ipv6 /\ v.port = u.port /\ v.path = u.path
      /\ v.query = q /\ v.fragment = u.fragment
  <2>1. v = [u EXCEPT !.query = q] /\ q \in PartType
    BY <1>1 DEF q
  <2> HIDE DEF v
  <2> QED
    BY <2>1 DEF UriType
<1>3. (q = Null <=> u.query = Null) /\ \A c : c # "=" => (c \in ToSet(Text(q)) <=> c \in ToSet(Text(u.query)))
  <2>1. CASE u.query = Null \/ "=" \in ToSet(Text(u.query))
    BY <2>1 DEF q, Rebuilt
  <2>2. CASE ~(u.query = Null \/ "=" \in ToSet(Text(u.query)))
    <3>1. q = Append(u.query, "=") /\ u.query \in Texts /\ Text(u.query) = u.query /\ "=" \in Token
      BY <1>1, <2>2, MarkTypes DEF q, Rebuilt, PartType, Text
    <3> DEFINE a == u.query
               b == Append(a, "=")
    <3>2. /\ b \in Texts /\ Len(b) = Len(a) + 1 /\ b[Len(a) + 1] = "=" /\ Len(a) \in Nat
          /\ \A k \in 1 .. Len(a) : b[k] = a[k]
      BY <3>1 DEF Texts
    <3>3. a \in Texts
      BY <3>1
    <3> HIDE DEF a, b
    <3>4. /\ \A c : c \in ToSet(a) <=> \E k \in 1 .. Len(a) : a[k] = c
          /\ \A c : c \in ToSet(b) <=> \E k \in 1 .. Len(b) : b[k] = c
      BY <3>2, <3>3, TextFacts DEF ToSet
    <3>5. ASSUME NEW c, c # "=" PROVE c \in ToSet(b) <=> c \in ToSet(a)
      <4>1. ASSUME NEW k \in 1 .. Len(b), b[k] = c PROVE \E i \in 1 .. Len(a) : a[i] = c
        BY <3>2, <3>5, <4>1
      <4>2. ASSUME NEW k \in 1 .. Len(a), a[k] = c PROVE \E i \in 1 .. Len(b) : b[i] = c
        BY <3>2, <4>2
      <4> QED
        BY <3>4, <4>1, <4>2
    <3>6. b # Null /\ Text(b) = b
      BY <3>2, NullIsNone DEF Text
    <3> QED
      BY <2>2, <3>1, <3>5, <3>6 DEF a, b
  <2> QED
    BY <2>1, <2>2
<1> HIDE DEF v
<1>4. HidesUser(v) <=> HidesUser(u)
  <2>1. AT # "=" /\ (AT \in ToSet(Text(q)) <=> AT \in ToSet(Text(u.query)))
    BY <1>3 DEF AT
  <2> QED
    BY <1>2, <2>1 DEF HidesUser
<1>5. Plain(v)
  <2>1. u.query # Null => HASHTAG \notin ToSet(q)
    <3> SUFFICES ASSUME u.query # Null PROVE HASHTAG \notin ToSet(q)
      OBVIOUS
    <3>1. Text(u.query) = u.query /\ Text(q) = q /\ HASHTAG # "="
      BY <1>3 DEF Text, HASHTAG
    <3>2. HASHTAG \notin ToSet(u.query)
      BY DEF Plain
    <3> QED
      BY <1>3, <3>1, <3>2
  <2> QED
    BY <1>2, <1>3, <2>1, Zenon DEF Plain
<1> QED
  BY <1>2, <1>3, <1>4, <1>5 DEF v, q

-------------------------------------------------------------------------------
(* A port that was printed is read again *)

LEMMA DivTen ==
    ASSUME NEW n \in Nat, NEW j \in 0 .. 8
    PROVE  n \div 10^j = 10 * (n \div 10^(j + 1)) + ((n \div 10^j) % 10)
<1>1. /\ 10^0 = 1 /\ 10^1 = 10 /\ 10^2 = 100 /\ 10^3 = 1000 /\ 10^4 = 10000 /\ 10^5 = 100000
      /\ 10^6 = 1000000 /\ 10^7 = 10000000 /\ 10^8 = 100000000 /\ 10^9 = 1000000000
  OBVIOUS
<1>2. CASE j = 0
  BY <1>1, <1>2
<1>3. CASE j = 1
  BY <1>1, <1>3
<1>4. CASE j = 2
  BY <1>1, <1>4
<1>5. CASE j = 3
  BY <1>1, <1>5
<1>6. CASE j = 4
  BY <1>1, <1>6
<1>7. CASE j = 5
  BY <1>1, <1>7
<1>8. CASE j = 6
  BY <1>1, <1>8
<1>9. CASE j = 7
  BY <1>1, <1>9
<1>10. CASE j = 8
  BY <1>1, <1>10
<1> QED
  BY <1>2, <1>3, <1>4, <1>5, <1>6, <1>7, <1>8, <1>9, <1>10

LEMMA PortPrinted ==
    ASSUME NEW n \in 1 .. MaxPort
    PROVE  /\ Digits(n) \in Texts /\ Digits(n) # <<>> /\ ToSet(Digits(n)) \subseteq Alnum
           /\ AtoI(Digits(n)) = n
<1> DEFINE d == intlen(n)
           s == Digits(n)
<1>1. n \in Nat /\ n \in 0 .. MaxPort /\ MaxPort \in Nat /\ IntSpan \in Nat /\ 2 * MaxPort < IntSpan
  BY UriAssumption
<1>2. /\ s \in Texts /\ Len(s) = d /\ d \in 1 .. 9 /\ n < 10^d
      /\ \A k \in 1 .. d : /\ s[k] \in DOMAIN Value /\ Size[s[k]] = 1
                           /\ Value[s[k]] = (n \div 10^(d - k)) % 10
  BY <1>1, DigitsAre, IntLen
<1> HIDE DEF d, s
<1>3. ToSet(s) \subseteq DOMAIN Value /\ s # <<>>
  BY <1>2, TextFacts DEF ToSet
<1>4. s \in Seq(DOMAIN Value)
  BY <1>2, <1>3, NumericSeq DEF IsNumeric
<1>5. PICK part \in [0 .. Len(s) -> Nat] :
             /\ part[0] = 0 /\ part[Len(s)] = Number(s)
             /\ \A k \in 1 .. Len(s) : part[k] = part[k - 1] * 10^Size[s[k]] + Value[s[k]]
  BY <1>4, NumberFold
<1> DEFINE R == {k \in 0 .. d : part[k] = n \div 10^(d - k)}
<1>6. 0 \in R
  <2> DEFINE q == 10^d
  <2>1. q \in Nat \ {0}
    <3>1. d \in 0 .. 9
      BY <1>2
    <3> QED
      BY <3>1, Powers
  <2>2. n < q /\ d - 0 = d
    BY <1>2
  <2> HIDE DEF q
  <2>3. n \div q = 0
    BY <1>1, <2>1, <2>2
  <2> QED
    BY <1>2, <1>5, <2>2, <2>3 DEF q
<1>7. ASSUME NEW k \in 1 .. d, k - 1 \in R PROVE k \in R
  <2> DEFINE j == d - k
             a == n \div 10^j
             b == n \div 10^(j + 1)
  <2>1. j \in 0 .. 8 /\ d - (k - 1) = j + 1 /\ k \in 0 .. d
    BY <1>2
  <2>2. a = 10 * b + (a % 10)
    <3> HIDE DEF j
    <3> QED
      BY <1>1, <2>1, DivTen
  <2>3. part[k - 1] = b
    BY <1>7, <2>1
  <2>4. part[k] = part[k - 1] * 10 + (a % 10)
    <3>1. 10^1 = 10
      OBVIOUS
    <3> QED
      BY <1>2, <1>5, <3>1
  <2>5. b \in Nat
    <3>1. part[k - 1] \in Nat
      BY <1>2, <1>5, <2>1
    <3> QED
      BY <2>3, <3>1
  <2> HIDE DEF a, b
  <2>6. part[k] = b * 10 + (a % 10) /\ b * 10 = 10 * b
    BY <2>3, <2>4, <2>5
  <2>7. part[k] = a
    BY <2>2, <2>6
  <2> QED
    BY <2>1, <2>7 DEF a, j
<1>8. d \in R
  <2>1. d \in Nat /\ d \in 0 .. d
    BY <1>2
  <2> HIDE DEF R
  <2> QED
    BY <1>6, <1>7, <2>1, UpToInduction
<1>9. Number(s) = n
  <2>1. d - d = 0 /\ 10^0 = 1 /\ n \div 1 = n
    BY <1>1, <1>2
  <2> QED
    BY <1>2, <1>5, <1>8, <2>1
<1>10. AtoI(s) = n
  <2>1. Number(s) < IntSpan /\ ~(2 * Number(s) >= IntSpan)
    BY <1>1, <1>9
  <2> QED
    BY <1>4, <1>9, <2>1, AtoIIs
<1> QED
  BY <1>2, <1>3, <1>10, WordTypes DEF s

-------------------------------------------------------------------------------
(* Where the parser finds what was printed *)

(* What is parsed, printed and parsed again *)
Printable(u) ==
    u \in UriType /\ AuthIsUser(u) /\ u.scheme # Null /\ u.hostname # Null /\ Plain(u)

(* The places are in their order, and the marks and parts of the host, path,  *)
(* query and fragment at theirs                                               *)
LEMMA PrintedPlaces ==
    ASSUME NEW u, Printable(u)
    PROVE  LET text == uri_stringify(u)
               up == UserPlaceOf(u)
               hp == HostPlaceOf(u)
               pp == PortPlaceOf(u)
               rp == RootPlaceOf(u)
               tp == PathPlaceOf(u)
               qp == QueryPlaceOf(u)
               fp == FragPlaceOf(u)
               n == Len(text)
           IN  /\ text \in Texts /\ n \in Nat /\ up \in Nat \ {0} /\ up = Len(u.scheme) + 3 /\ Len(u.scheme) \in Nat
               /\ hp \in up .. n /\ pp \in hp + 1 .. n /\ rp \in pp .. n /\ tp \in rp + 1 .. n /\ tp = rp + 1
               /\ qp \in tp .. n /\ fp \in qp .. n /\ text[tp] = SLASH
               /\ u.is_ipv6 => /\ text[hp + 1] = "[" /\ Stands(text, hp + 1, u.hostname)
                               /\ pp = hp + 1 + Len(u.hostname) + 1 /\ text[pp] = "]"
               /\ ~u.is_ipv6 => Stands(text, hp, u.hostname) /\ pp = hp + Len(u.hostname)
               /\ u.port = 0 => rp = pp
               /\ u.port # 0 => /\ u.port \in 1 .. MaxPort /\ text[pp + 1] = COLON
                                /\ Stands(text, pp + 1, Digits(u.port))
                                /\ rp = pp + 1 + Len(Digits(u.port))
               /\ Stands(text, tp, Text(u.path)) /\ qp = tp + Len(Text(u.path))
               /\ u.query = Null => fp = qp
               /\ u.query # Null => /\ text[qp + 1] = QUESTION_MARK /\ Stands(text, qp + 1, u.query)
                                    /\ fp = qp + 1 + Len(u.query)
               /\ u.fragment = Null => n = fp
               /\ u.fragment # Null => /\ text[fp + 1] = HASHTAG /\ Stands(text, fp + 1, u.fragment)
                                       /\ n = fp + 1 + Len(u.fragment)
<1> DEFINE text == uri_stringify(u)
           up == UserPlaceOf(u)
           hp == HostPlaceOf(u)
           pp == PortPlaceOf(u)
           rp == RootPlaceOf(u)
           tp == PathPlaceOf(u)
           qp == QueryPlaceOf(u)
           fp == FragPlaceOf(u)
           n == Len(text)
<1>1. /\ text \in Texts /\ n = fp + Len(FragPart(u))
      /\ Stands(text, hp, HostPart(u))
      /\ Stands(text, pp, PortPart(u)) /\ Stands(text, rp, <<SLASH>>)
      /\ Stands(text, tp, Text(u.path)) /\ Stands(text, qp, QueryPart(u))
      /\ Stands(text, fp, FragPart(u))
  BY Layout DEF Printable
<1>2. /\ u.scheme \in Texts /\ u.hostname \in Texts \ {<<>>} /\ UserInfo(u) \in Texts
      /\ HostPart(u) \in Texts /\ PortPart(u) \in Texts /\ Text(u.path) \in Texts
      /\ QueryPart(u) \in Texts /\ FragPart(u) \in Texts
      /\ u.query \in PartType /\ u.fragment \in PartType /\ u.port \in 0 .. MaxPort /\ u.is_ipv6 \in BOOLEAN
  BY PartTypes DEF Printable, UriType, PartType
<1>3. /\ up = Len(u.scheme) + 3 /\ hp = up + Len(UserInfo(u)) /\ pp = hp + Len(HostPart(u))
      /\ rp = pp + Len(PortPart(u)) /\ tp = rp + 1 /\ qp = tp + Len(Text(u.path))
      /\ fp = qp + Len(QueryPart(u))
  BY DEF UserPlaceOf, HostPlaceOf, PortPlaceOf, RootPlaceOf, PathPlaceOf, QueryPlaceOf, FragPlaceOf
<1> HIDE DEF text, up, hp, pp, rp, tp, qp, fp
<1> DEFINE marks == {SLASH, QUESTION_MARK, HASHTAG, COLON, "[", "]"}
<1>4. \A c \in marks : c \in Token /\ <<c>> \in Texts /\ Len(<<c>>) = 1
  <2>1. \A c \in marks : c \in Token
    BY MarkTypes
  <2> QED
    BY <2>1, LengthOne
<1>5. \A at : \A c \in marks : \A part \in Texts :
        /\ Stands(text, at, <<c>>) => text[at + 1] = c
        /\ Stands(text, at, <<c>> \o part) =>
             text[at + 1] = c /\ Stands(text, at + 1, part) /\ Len(<<c>> \o part) = 1 + Len(part)
  <2> TAKE at
  <2> TAKE c \in marks
  <2> TAKE part \in Texts
  <2>1. c \in Token /\ <<c>> \in Texts /\ Len(<<c>>) = 1
    BY <1>4, Zenon
  <2>2. Stands(text, at, <<c>>) => text[at + 1] = c
    BY <1>1, <2>1, StandsMark
  <2>3. ASSUME Stands(text, at, <<c>> \o part)
        PROVE  Stands(text, at, <<c>>) /\ Stands(text, at + 1, part)
    BY <1>1, <2>1, <2>3, StandsPart
  <2>4. Len(<<c>> \o part) = 1 + Len(part)
    BY <2>1, ConcatIs
  <2> QED
    BY <2>2, <2>3, <2>4
<1>6. /\ u.is_ipv6 => /\ text[hp + 1] = "[" /\ Stands(text, hp + 1, u.hostname)
                      /\ Len(HostPart(u)) = 1 + Len(u.hostname) + 1
                      /\ text[(hp + 1 + Len(u.hostname)) + 1] = "]"
      /\ ~u.is_ipv6 => Stands(text, hp, u.hostname) /\ Len(HostPart(u)) = Len(u.hostname)
  <2>1. CASE u.is_ipv6
    <3> DEFINE rest == u.hostname \o <<"]">>
    <3>1. rest \in Texts /\ Len(rest) = Len(u.hostname) + 1
      BY <1>2, <1>4, ConcatIs
    <3>2. HostPart(u) = <<"[">> \o rest
      <4>1. HostPart(u) = <<"[">> \o u.hostname \o <<"]">>
        BY <2>1 DEF HostPart
      <4>2. <<"[">> \in Texts /\ <<"]">> \in Texts /\ u.hostname \in Texts
        BY <1>2, <1>4
      <4> QED
        BY <4>1, <4>2, ConcatTexts
    <3> HIDE DEF rest
    <3>3. /\ text[hp + 1] = "[" /\ Stands(text, hp + 1, rest) /\ Len(HostPart(u)) = 1 + Len(rest)
      BY <1>1, <1>5, <3>1, <3>2
    <3>4. Stands(text, hp + 1, u.hostname) /\ Stands(text, hp + 1 + Len(u.hostname), <<"]">>)
      BY <1>1, <1>2, <1>4, <3>3, StandsPart DEF rest
    <3>5. text[(hp + 1 + Len(u.hostname)) + 1] = "]"
      BY <1>2, <1>5, <3>4
    <3>6. Len(HostPart(u)) = 1 + Len(u.hostname) + 1
      BY <1>2, <3>1, <3>3, TextFacts
    <3> QED
      BY <2>1, <3>3, <3>4, <3>5, <3>6
  <2>2. CASE ~u.is_ipv6
    BY <1>1, <2>2 DEF HostPart
  <2> QED
    BY <2>1, <2>2
<1>7. /\ u.port = 0 => Len(PortPart(u)) = 0
      /\ u.port # 0 => /\ u.port \in 1 .. MaxPort /\ text[pp + 1] = COLON
                       /\ Stands(text, pp + 1, Digits(u.port)) /\ Len(PortPart(u)) = 1 + Len(Digits(u.port))
                       /\ Len(Digits(u.port)) \in Nat
  <2>1. CASE u.port = 0
    BY <2>1 DEF PortPart
  <2>2. CASE u.port # 0
    <3>1. u.port \in 1 .. MaxPort /\ u.port > 0 /\ Digits(u.port) \in Texts
      BY <1>2, <2>2, DigitsAre
    <3>2. PortPart(u) = <<COLON>> \o Digits(u.port)
      BY <3>1 DEF PortPart
    <3>3. Len(Digits(u.port)) \in Nat
      BY <3>1, TextFacts
    <3>4. Stands(text, pp, <<COLON>> \o Digits(u.port))
      BY <1>1, <3>2
    <3> QED
      BY <1>5, <2>2, <3>1, <3>2, <3>3, <3>4
  <2> QED
    BY <2>1, <2>2
<1>8. \A part \in PartType : \A c \in {QUESTION_MARK, HASHTAG} : \A at :
        Stands(text, at, Prefixed(c, part)) =>
          /\ part = Null => Len(Prefixed(c, part)) = 0
          /\ part # Null => /\ text[at + 1] = c /\ Stands(text, at + 1, part)
                            /\ Len(Prefixed(c, part)) = 1 + Len(part) /\ Len(part) \in Nat
  <2> TAKE part \in PartType
  <2> TAKE c \in {QUESTION_MARK, HASHTAG}
  <2> TAKE at
  <2> HAVE Stands(text, at, Prefixed(c, part))
  <2>1. part = Null => Len(Prefixed(c, part)) = 0
    BY DEF Prefixed
  <2>2. ASSUME part # Null
        PROVE  /\ text[at + 1] = c /\ Stands(text, at + 1, part)
               /\ Len(Prefixed(c, part)) = 1 + Len(part) /\ Len(part) \in Nat
    <3>1. part \in Texts /\ Prefixed(c, part) = <<c>> \o part
      BY <2>2 DEF PartType, Prefixed
    <3>2. Stands(text, at, <<c>> \o part)
      BY <3>1
    <3>3. c \in marks
      OBVIOUS
    <3> QED
      <4>1. /\ text[at + 1] = c /\ Stands(text, at + 1, part) /\ Len(<<c>> \o part) = 1 + Len(part)
        BY <1>5, <3>1, <3>2, <3>3, Zenon
      <4>2. Len(part) \in Nat
        BY <3>1, TextFacts
      <4> QED
        BY <3>1, <4>1, <4>2
  <2> QED
    BY <2>1, <2>2
<1>9. /\ u.query = Null => Len(QueryPart(u)) = 0
      /\ u.query # Null => /\ text[qp + 1] = QUESTION_MARK /\ Stands(text, qp + 1, u.query)
                           /\ Len(QueryPart(u)) = 1 + Len(u.query) /\ Len(u.query) \in Nat
      /\ u.fragment = Null => Len(FragPart(u)) = 0
      /\ u.fragment # Null => /\ text[fp + 1] = HASHTAG /\ Stands(text, fp + 1, u.fragment)
                              /\ Len(FragPart(u)) = 1 + Len(u.fragment) /\ Len(u.fragment) \in Nat
  BY <1>1, <1>2, <1>8 DEF QueryPart, FragPart
<1>10. text[tp] = SLASH
  <2>1. text[rp + 1] = SLASH
    BY <1>1, <1>2, <1>5
  <2> QED
    BY <1>3, <2>1
<1>11. /\ Len(u.scheme) \in Nat /\ Len(u.hostname) \in Nat \ {0} /\ Len(UserInfo(u)) \in Nat
       /\ Len(HostPart(u)) \in Nat \ {0} /\ Len(PortPart(u)) \in Nat /\ Len(Text(u.path)) \in Nat
       /\ Len(QueryPart(u)) \in Nat /\ Len(FragPart(u)) \in Nat
  <2>1. Len(u.hostname) \in Nat \ {0}
    BY <1>2, TextFacts DEF Texts
  <2> QED
    BY <1>2, <1>6, <2>1, TextFacts
<1> DEFINE scheme == Len(u.scheme)
           user == Len(UserInfo(u))
           host == Len(HostPart(u))
           name == Len(u.hostname)
           port == Len(PortPart(u))
           digits == Len(Digits(u.port))
           path == Len(Text(u.path))
           query == Len(QueryPart(u))
           frag == Len(FragPart(u))
           qlen == Len(u.query)
           flen == Len(u.fragment)
<1>12. /\ scheme \in Nat /\ name \in Nat \ {0} /\ user \in Nat /\ host \in Nat \ {0} /\ port \in Nat
       /\ path \in Nat /\ query \in Nat /\ frag \in Nat
       /\ up = scheme + 3 /\ hp = up + user /\ pp = hp + host /\ rp = pp + port /\ tp = rp + 1
       /\ qp = tp + path /\ fp = qp + query /\ n = fp + frag
       /\ (u.is_ipv6 => host = 1 + name + 1 /\ text[(hp + 1 + name) + 1] = "]") /\ (~u.is_ipv6 => host = name)
       /\ (u.port = 0 => port = 0) /\ (u.port # 0 => port = 1 + digits /\ digits \in Nat)
       /\ (u.query = Null => query = 0) /\ (u.query # Null => query = 1 + qlen /\ qlen \in Nat)
       /\ (u.fragment = Null => frag = 0) /\ (u.fragment # Null => frag = 1 + flen /\ flen \in Nat)
  BY <1>1, <1>3, <1>6, <1>7, <1>9, <1>11
<1> HIDE DEF n, scheme, user, host, name, port, digits, path, query, frag, qlen, flen
<1>13. /\ up \in Nat \ {0} /\ hp \in up .. n /\ pp \in hp + 1 .. n /\ rp \in pp .. n /\ tp \in rp + 1 .. n
       /\ qp \in tp .. n /\ fp \in qp .. n /\ n \in Nat
  BY <1>12
<1>14. /\ u.is_ipv6 => pp = hp + 1 + name + 1 /\ text[pp] = "]"
       /\ ~u.is_ipv6 => pp = hp + name
       /\ u.port = 0 => rp = pp
       /\ u.port # 0 => rp = pp + 1 + digits
       /\ u.query = Null => fp = qp
       /\ u.query # Null => fp = qp + 1 + qlen
       /\ u.fragment = Null => n = fp
       /\ u.fragment # Null => n = fp + 1 + flen
  <2>1. u.is_ipv6 => pp = hp + 1 + name + 1
    BY <1>12, <1>13
  <2>2. u.is_ipv6 => text[pp] = "]"
    <3>1. hp + 1 + name + 1 = (hp + 1 + name) + 1
      BY <1>12, <1>13
    <3> QED
      BY <1>12, <2>1, <3>1
  <2> QED
    BY <1>12, <1>13, <2>1, <2>2
<1> QED
  BY <1>1, <1>3, <1>6, <1>7, <1>9, <1>10, <1>11, <1>12, <1>13, <1>14
     DEF text, up, hp, pp, rp, tp, qp, fp, n, name, digits, qlen, flen

LEMMA PrintedScheme ==
    ASSUME NEW u, Printable(u)
    PROVE  LET text == uri_stringify(u)
           IN  SchemeEnd(text) + 3 = UserPlaceOf(u) + 1 /\ SchemeEnd(text) \notin {0, 1}
               /\ SubSeq(text, 1, SchemeEnd(text) - 1) = u.scheme
<1> DEFINE text == uri_stringify(u)
           s == Len(u.scheme)
           e == SchemeEnd(text)
           hits == {k \in 1 .. (Len(text) - 2) : SubSeq(text, k, k + 2) = SCHEME_SEPARATOR}
<1>1. /\ text \in Texts /\ Stands(text, 0, u.scheme) /\ Stands(text, s, SCHEME_SEPARATOR)
      /\ u.scheme \in Texts \ {<<>>}
  BY Layout DEF Printable, UriType, PartType
<1>2. UserPlaceOf(u) = s + 3 /\ s \in Nat \ {0} /\ Len(text) \in Nat
  BY <1>1, TextFacts DEF UserPlaceOf, Texts
<1>3. COLON \notin ToSet(u.scheme)
  BY DEF Printable, Plain, Delimiters
<1> HIDE DEF text
<1>4. \A k \in 0 + 1 .. 0 + s : text[k] # COLON
  BY <1>1, <1>3, StandsFree
<1>5. SubSeq(text, 0 + 1, 0 + s) = u.scheme
  BY <1>1, StandsCut
<1>6. Len(SCHEME_SEPARATOR) = 3
  BY DEF SCHEME_SEPARATOR
<1>7. SubSeq(text, s + 1, s + Len(SCHEME_SEPARATOR)) = SCHEME_SEPARATOR /\ s + Len(SCHEME_SEPARATOR) <= Len(text)
  BY <1>1, StandsCut DEF Stands
<1> HIDE DEF s
<1>8. s + 1 \in hits
  <2>1. (s + 1) + 2 = s + 3 /\ s + 1 \in 1 .. Len(text) - 2
    BY <1>2, <1>6, <1>7
  <2> QED
    BY <1>6, <1>7, <2>1
<1>9. e = Min(hits) /\ hits \in SUBSET Nat /\ hits # {}
  BY <1>8 DEF SchemeEnd
<1>10. e <= s + 1 /\ e \in 1 .. Len(text) - 2 /\ text[e] = COLON
  <2>1. Min(hits) \in hits /\ Min(hits) <= s + 1
    <3> HIDE DEF hits
    <3> QED
      BY <1>8, <1>9, MinOf
  <2>2. e <= s + 1 /\ e # 0
    BY <1>9, <2>1
  <2> HIDE DEF hits
  <2> QED
    BY <1>1, <2>2, SchemeFound
<1> HIDE DEF e
<1>11. e = s + 1
  <2>1. ~(e \in 0 + 1 .. 0 + s)
    BY <1>4, <1>10
  <2> QED
    BY <1>2, <1>10, <2>1
<1>12. e - 1 = 0 + s /\ 1 = 0 + 1
  BY <1>2, <1>11
<1>13. SubSeq(text, 1, e - 1) = u.scheme
  BY <1>5, <1>12
<1> QED
  BY <1>2, <1>11, <1>13 DEF e, text

(* Nothing ends the host and the port before the "/" does *)
LEMMA HostFree ==
    ASSUME NEW u, Printable(u)
    PROVE  /\ \A c \in {SLASH, QUESTION_MARK, HASHTAG, AT} :
                \A k \in HostPlaceOf(u) + 1 .. RootPlaceOf(u) : uri_stringify(u)[k] # c
           /\ ~u.is_ipv6 => \A c \in Delimiters :
                \A k \in HostPlaceOf(u) + 1 .. PortPlaceOf(u) : uri_stringify(u)[k] # c
           /\ u.is_ipv6 => \A k \in HostPlaceOf(u) + 1 .. PortPlaceOf(u) - 1 : uri_stringify(u)[k] # "]"
<1> DEFINE text == uri_stringify(u)
           hp == HostPlaceOf(u)
           pp == PortPlaceOf(u)
           rp == RootPlaceOf(u)
           name == Len(u.hostname)
           digits == Digits(u.port)
<1>1. /\ text \in Texts /\ hp \in Nat /\ pp \in Nat /\ rp \in Nat
      /\ u.is_ipv6 => /\ text[hp + 1] = "[" /\ Stands(text, hp + 1, u.hostname)
                      /\ pp = hp + 1 + name + 1 /\ text[pp] = "]"
      /\ ~u.is_ipv6 => Stands(text, hp, u.hostname) /\ pp = hp + name
      /\ u.port = 0 => rp = pp
      /\ u.port # 0 => /\ u.port \in 1 .. MaxPort /\ text[pp + 1] = COLON
                       /\ Stands(text, pp + 1, digits)
                       /\ rp = pp + 1 + Len(digits)
  <2>1. text \in Texts /\ hp \in Nat /\ pp \in Nat /\ rp \in Nat
    BY PrintedPlaces
  <2>2. u.is_ipv6 => /\ text[hp + 1] = "[" /\ Stands(text, hp + 1, u.hostname)
                     /\ pp = hp + 1 + name + 1 /\ text[pp] = "]"
    BY PrintedPlaces, Zenon
  <2>3. ~u.is_ipv6 => Stands(text, hp, u.hostname) /\ pp = hp + name
    BY PrintedPlaces, Zenon
  <2>4. /\ u.port = 0 => rp = pp
        /\ u.port # 0 => /\ u.port \in 1 .. MaxPort /\ text[pp + 1] = COLON
                         /\ Stands(text, pp + 1, digits)
                         /\ rp = pp + 1 + Len(digits)
    BY PrintedPlaces, Zenon
  <2> QED
    BY <2>1, <2>2, <2>3, <2>4, Zenon
<1>2. /\ u.is_ipv6 => ToSet(u.hostname) \cap (Delimiters \ {COLON}) = {}
      /\ ~u.is_ipv6 => ToSet(u.hostname) \cap Delimiters = {}
      /\ u.port # 0 => ToSet(digits) \cap Delimiters = {} /\ digits \in Texts
      /\ u.hostname \in Texts
  <2>1. u.port # 0 => ToSet(digits) \cap Delimiters = {} /\ digits \in Texts
    <3> HIDE DEF digits
    <3>1. u.port # 0 => ToSet(digits) \subseteq Alnum /\ digits \in Texts
      BY <1>1, PortPrinted DEF digits
    <3> QED
      BY <3>1, OthersPlain
  <2>2. u.hostname \in Texts
    BY DEF Printable, UriType, PartType
  <2> QED
    BY <2>1, <2>2 DEF Printable, Plain
<1>3. name \in Nat /\ (u.port # 0 => Len(digits) \in Nat)
  BY <1>2, TextFacts
<1> HIDE DEF text, hp, pp, rp, digits, name
<1>4. ASSUME ~u.is_ipv6, NEW c \in Delimiters, NEW k \in hp + 1 .. pp PROVE text[k] # c
  <2>1. c \notin ToSet(u.hostname)
    BY <1>2, <1>4
  <2>2. \A j \in hp + 1 .. hp + name : text[j] # c
    BY <1>1, <1>4, <2>1, StandsFree DEF name
  <2> QED
    BY <1>1, <1>4, <2>2
<1>5. ASSUME u.is_ipv6, NEW c \in Delimiters \ {COLON}, NEW k \in hp + 1 .. pp PROVE text[k] = c => c \in {"[", "]"}
                                                                            /\ (c = "]" => k = pp)
  <2>1. c \notin ToSet(u.hostname)
    BY <1>2, <1>5
  <2>2. \A j \in (hp + 1) + 1 .. (hp + 1) + name : text[j] # c
    BY <1>1, <1>5, <2>1, StandsFree DEF name
  <2>3. k = hp + 1 \/ k = pp \/ k \in (hp + 1) + 1 .. (hp + 1) + name
    BY <1>1, <1>3, <1>5
  <2>4. "[" # "]"
    OBVIOUS
  <2> QED
    BY <1>1, <1>5, <2>2, <2>3, <2>4
<1>6. ASSUME NEW c \in {SLASH, QUESTION_MARK, HASHTAG, AT}, NEW k \in hp + 1 .. rp PROVE text[k] # c
  <2>1. c \in Delimiters \ {COLON} /\ c \notin {"[", "]"} /\ c # COLON
    BY DEF Delimiters, SLASH, QUESTION_MARK, HASHTAG, AT, COLON
  <2>2. CASE k \in hp + 1 .. pp
    BY <1>4, <1>5, <2>1, <2>2
  <2>3. CASE k \notin hp + 1 .. pp
    <3>1. u.port # 0 /\ k \in pp + 1 .. rp
      BY <1>1, <1>6, <2>3
    <3>2. c \notin ToSet(digits)
      BY <1>2, <2>1, <3>1
    <3>3. \A j \in (pp + 1) + 1 .. (pp + 1) + Len(digits) : text[j] # c
      BY <1>1, <1>2, <3>1, <3>2, StandsFree
    <3>4. k = pp + 1 \/ k \in (pp + 1) + 1 .. (pp + 1) + Len(digits)
      BY <1>1, <1>3, <3>1
    <3> QED
      BY <1>1, <2>1, <3>1, <3>3, <3>4
  <2> QED
    BY <2>2, <2>3
<1>7. ASSUME u.is_ipv6, NEW k \in hp + 1 .. pp - 1 PROVE text[k] # "]"
  <2>1. "]" \in Delimiters \ {COLON} /\ k \in hp + 1 .. pp /\ k # pp
    BY <1>1, <1>7 DEF Delimiters, COLON
  <2> QED
    BY <1>5, <1>7, <2>1
<1> QED
  BY <1>4, <1>6, <1>7 DEF text, hp, pp, rp

(* The user, when another "@" does not hide that there is none *)
LEMMA PrintedUser ==
    ASSUME NEW u, Printable(u), ~HidesUser(u)
    PROVE  LET text == uri_stringify(u)
               p == Places(text)
           IN  /\ p.host = HostPlaceOf(u) + 1
               /\ OrNull(Username(text, p)) = u.username /\ OrNull(Password(text, p)) = u.password
               /\ (Username(text, p) # <<>> \/ Password(text, p) # <<>>) = u.has_authentication
<1> DEFINE text == uri_stringify(u)
           p == Places(text)
           up == UserPlaceOf(u)
           hp == HostPlaceOf(u)
           n == Len(text)
           name == Text(u.username)
           pass == Text(u.password)
<1>1. /\ text \in Texts /\ n \in Nat /\ up \in Nat \ {0} /\ hp \in up .. n /\ RootPlaceOf(u) \in hp + 1 .. n
  BY PrintedPlaces
<1>2. SchemeEnd(text) # 0 /\ SchemeEnd(text) + 3 = up + 1
  BY PrintedScheme
<1>3. /\ p.start = up + 1 /\ p.at = Find(AT, text, up + 1)
      /\ p.host = (IF p.at = 0 THEN p.start ELSE p.at + 1)
  BY <1>1, <1>2, PlacesAre
<1>4. /\ u.username \in PartType /\ u.password \in PartType /\ name \in Texts /\ pass \in Texts
      /\ u.has_authentication \in BOOLEAN
      /\ u.has_authentication <=> u.username # Null \/ u.password # Null
      /\ Stands(text, up, UserInfo(u)) /\ hp = up + Len(UserInfo(u))
      /\ AT \notin ToSet(name) /\ COLON \notin ToSet(name) /\ AT \notin ToSet(pass)
  BY PartTypes, Layout DEF Printable, UriType, AuthIsUser, Plain, HostPlaceOf
<1>5. OrNull(name) = u.username /\ OrNull(pass) = u.password
  BY <1>4, NullIsNone DEF OrNull, Text, PartType
<1> HIDE DEF text, p, n, name, pass, up, hp
<1>6. CASE ~u.has_authentication
  <2>1. hp = up /\ name = <<>> /\ pass = <<>> /\ OrNull(<<>>) = Null
    BY <1>1, <1>4, <1>6 DEF UserInfo, name, pass, Text, OrNull
  <2>2. \A k \in up + 1 .. n : text[k] # AT
    <3>1. /\ AT \notin ToSet(Text(u.path)) /\ (u.query # Null => AT \notin ToSet(u.query))
          /\ u.fragment # Null => AT \notin ToSet(u.fragment)
      BY <1>6 DEF HidesUser, Text
    <3> DEFINE rp == RootPlaceOf(u)
               tp == PathPlaceOf(u)
               qp == QueryPlaceOf(u)
               fp == FragPlaceOf(u)
    <3>2. /\ rp \in hp + 1 .. n /\ tp = rp + 1 /\ qp \in tp .. n /\ fp \in qp .. n /\ text[tp] = SLASH
          /\ Stands(text, tp, Text(u.path)) /\ qp = tp + Len(Text(u.path))
          /\ u.query = Null => fp = qp
          /\ u.query # Null => /\ text[qp + 1] = QUESTION_MARK /\ Stands(text, qp + 1, u.query)
                               /\ fp = qp + 1 + Len(u.query)
          /\ u.fragment = Null => n = fp
          /\ u.fragment # Null => /\ text[fp + 1] = HASHTAG /\ Stands(text, fp + 1, u.fragment)
                                  /\ n = fp + 1 + Len(u.fragment)
      BY <1>1, PrintedPlaces DEF text, hp, n
    <3>3. AT # SLASH /\ AT # QUESTION_MARK /\ AT # HASHTAG
      BY DEF AT, SLASH, QUESTION_MARK, HASHTAG
    <3>4. \A k \in hp + 1 .. rp : text[k] # AT
      BY HostFree DEF text, hp
    <3> HIDE DEF rp, tp, qp, fp
    <3>5. \A k \in tp + 1 .. qp : text[k] # AT
      BY <1>1, <3>1, <3>2, StandsFree
    <3>6. \A k \in qp + 1 .. fp : text[k] # AT
      <4>1. u.query # Null => \A k \in (qp + 1) + 1 .. (qp + 1) + Len(u.query) : text[k] # AT
        BY <1>1, <3>1, <3>2, StandsFree
      <4> TAKE k \in qp + 1 .. fp
      <4>2. u.query # Null /\ (k = qp + 1 \/ k \in (qp + 1) + 1 .. (qp + 1) + Len(u.query))
        <5> DEFINE m == Len(u.query)
        <5>1. u.query # Null => m \in Nat
          BY <3>2, TextFacts DEF Stands
        <5> HIDE DEF m
        <5>2. qp \in Nat /\ fp \in Nat /\ k \in Nat /\ k >= qp + 1 /\ k <= fp
          BY <1>1, <3>2
        <5>3. (u.query # Null => fp = qp + 1 + m) /\ (u.query = Null => fp = qp)
          BY <3>2 DEF m
        <5>4. u.query # Null /\ (k = qp + 1 \/ k \in (qp + 1) + 1 .. (qp + 1) + m)
          BY <5>1, <5>2, <5>3
        <5> QED
          BY <5>4 DEF m
      <4> QED
        BY <3>2, <3>3, <4>1, <4>2
    <3>7. \A k \in fp + 1 .. n : text[k] # AT
      <4>1. u.fragment # Null => \A k \in (fp + 1) + 1 .. (fp + 1) + Len(u.fragment) : text[k] # AT
        BY <1>1, <3>1, <3>2, StandsFree
      <4> TAKE k \in fp + 1 .. n
      <4>2. u.fragment # Null /\ (k = fp + 1 \/ k \in (fp + 1) + 1 .. (fp + 1) + Len(u.fragment))
        BY <1>1, <3>2
      <4> QED
        BY <3>2, <3>3, <4>1, <4>2
    <3> TAKE k \in up + 1 .. n
    <3>8. \/ k \in hp + 1 .. rp \/ k = tp \/ k \in tp + 1 .. qp \/ k \in qp + 1 .. fp \/ k \in fp + 1 .. n
      BY <1>1, <2>1, <3>2
    <3> QED
      BY <3>2, <3>3, <3>4, <3>5, <3>6, <3>7, <3>8
  <2>3. p.at = 0
    <3>1. 0 \in 0 .. Len(text) /\ up + 1 \in Nat \ {0}
      BY <1>1 DEF n
    <3> QED
      BY <1>1, <1>3, <2>2, <3>1, FindIs DEF n
  <2>4. p.host = hp + 1 /\ Username(text, p) = <<>> /\ Password(text, p) = <<>>
    BY <1>3, <2>1, <2>3 DEF Username, Password
  <2>5. ~(Username(text, p) # <<>> \/ Password(text, p) # <<>>)
    BY <2>4
  <2>6. (Username(text, p) # <<>> \/ Password(text, p) # <<>>) = u.has_authentication
    BY <1>4, <1>6, <2>5
  <2>7. OrNull(Username(text, p)) = u.username /\ OrNull(Password(text, p)) = u.password
    BY <1>5, <2>1, <2>4
  <2> QED
    BY <2>4, <2>6, <2>7 DEF text, p, hp
<1>7. CASE u.has_authentication
  <2> DEFINE i == up + Len(name)
  <2>1. /\ Len(name) \in Nat /\ Len(pass) \in Nat /\ <<COLON>> \in Texts /\ <<AT>> \in Texts
        /\ Len(<<COLON>>) = 1 /\ Len(<<AT>>) = 1 /\ COLON \in Token /\ AT \in Token
    BY <1>4, TextFacts, MarkTypes, LengthOne
  <2> DEFINE t1 == name \o <<COLON>>
             t2 == t1 \o pass
  <2>2. UserInfo(u) = t2 \o <<AT>>
    BY <1>7 DEF UserInfo, name, pass
  <2>3. t1 \in Texts /\ Len(t1) = Len(name) + 1
    BY <1>4, <2>1, ConcatIs
  <2> HIDE DEF t1
  <2>4. t2 \in Texts /\ Len(t2) = Len(name) + 1 + Len(pass)
    BY <1>4, <2>1, <2>3, ConcatIs
  <2> HIDE DEF t2
  <2>5. Len(UserInfo(u)) = Len(name) + 1 + Len(pass) + 1
    <3>1. Len(t2 \o <<AT>>) = Len(t2) + Len(<<AT>>)
      BY <2>1, <2>4, ConcatIs
    <3> QED
      BY <2>1, <2>2, <2>4, <3>1
  <2>6. Stands(text, up, t2) /\ Stands(text, up + Len(t2), <<AT>>)
    <3>1. Stands(text, up, t2 \o <<AT>>)
      BY <1>4, <2>2
    <3> QED
      BY <1>1, <2>1, <2>4, <3>1, StandsPart
  <2>7. Stands(text, up, t1) /\ Stands(text, up + Len(t1), pass)
    BY <1>1, <1>4, <2>3, <2>6, StandsPart DEF t2
  <2>8. Stands(text, up, name) /\ Stands(text, i, <<COLON>>)
    BY <1>1, <1>4, <2>1, <2>7, StandsPart DEF t1
  <2>9. text[i + 1] = COLON /\ text[up + Len(t2) + 1] = AT
    BY <1>1, <2>1, <2>6, <2>8, StandsMark
  <2>10. i \in Nat /\ i >= up /\ up + Len(t1) = i + 1 /\ up + Len(t2) + 1 = hp /\ hp = (i + 1) + Len(pass) + 1
    BY <1>1, <1>4, <2>1, <2>3, <2>4, <2>5
  <2> HIDE DEF i
  <2>11. Stands(text, i + 1, pass) /\ text[hp] = AT /\ text[i + 1] = COLON
    BY <2>7, <2>9, <2>10
  <2>12. /\ \A k \in up + 1 .. i : text[k] # AT /\ text[k] # COLON
         /\ \A k \in (i + 1) + 1 .. (i + 1) + Len(pass) : text[k] # AT
    <3>1. i = up + Len(name)
      BY DEF i
    <3> QED
      BY <1>1, <1>4, <2>8, <2>11, <3>1, StandsFree
  <2>13. p.at = hp
    <3>1. hp \in 0 .. Len(text) /\ up + 1 \in Nat \ {0} /\ hp # 0 /\ hp >= up + 1
      BY <1>1, <2>1, <2>10 DEF n
    <3>2. \A k \in up + 1 .. hp - 1 : text[k] # AT
      <4> TAKE k \in up + 1 .. hp - 1
      <4>1. k \in up + 1 .. i \/ k = i + 1 \/ k \in (i + 1) + 1 .. (i + 1) + Len(pass)
        BY <1>1, <2>1, <2>10
      <4>2. AT # COLON
        BY DEF AT, COLON
      <4> QED
        BY <2>11, <2>12, <4>1, <4>2
    <3>3. Find(AT, text, up + 1) = hp
      BY <1>1, <2>11, <3>1, <3>2, FindIs
    <3> QED
      BY <1>3, <3>3
  <2>14. Find(COLON, text, up + 1) = i + 1
    <3>1. i + 1 \in 0 .. Len(text) /\ up + 1 \in Nat \ {0} /\ i + 1 # 0 /\ i + 1 >= up + 1 /\ (i + 1) - 1 = i
      BY <1>1, <2>1, <2>10 DEF n
    <3>2. \A k \in up + 1 .. (i + 1) - 1 : text[k] # COLON
      BY <2>12, <3>1
    <3> QED
      BY <1>1, <2>11, <3>1, <3>2, FindIs
  <2>15. UserEnd(text, p) = i + 1 /\ p.at # 0
    <3>1. ~(i + 1 = 0 \/ i + 1 > hp) /\ hp # 0
      BY <1>1, <2>1, <2>10
    <3> QED
      BY <1>3, <2>13, <2>14, <3>1 DEF UserEnd
  <2>16. Username(text, p) = name /\ Password(text, p) = pass
    <3>1. SubSeq(text, up + 1, up + Len(name)) = name /\ SubSeq(text, (i + 1) + 1, (i + 1) + Len(pass)) = pass
      BY <1>1, <2>8, <2>11, StandsCut
    <3>2. (i + 1) - 1 = up + Len(name) /\ hp - 1 = (i + 1) + Len(pass)
      BY <1>1, <2>1, <2>10 DEF i
    <3>3. /\ Username(text, p) = SubSeq(text, up + 1, (i + 1) - 1)
          /\ Password(text, p) = SubSeq(text, (i + 1) + 1, hp - 1)
      BY <1>3, <2>13, <2>15 DEF Username, Password
    <3> QED
      BY <3>1, <3>2, <3>3
  <2>17. name # <<>> \/ pass # <<>>
    BY <1>4, <1>5, <1>7 DEF OrNull
  <2>18. p.host = hp + 1
    BY <1>3, <2>13, <2>15
  <2> QED
    BY <1>5, <1>7, <2>16, <2>17, <2>18 DEF text, p, hp
<1> QED
  BY <1>4, <1>6, <1>7

(* The host and the port, once the host is found *)
LEMMA PrintedHost ==
    ASSUME NEW u, Printable(u), ~HidesUser(u)
    PROVE  LET text == uri_stringify(u)
               p == Places(text)
           IN  /\ p.v6 = u.is_ipv6 /\ p.path = PathPlaceOf(u) /\ (p.v6 => p.close # 0)
               /\ HostText(text, p) = u.hostname
               /\ PortText(text, p) = (IF u.port = 0 THEN <<>> ELSE Digits(u.port))
<1> DEFINE text == uri_stringify(u)
           p == Places(text)
           hp == HostPlaceOf(u)
           pp == PortPlaceOf(u)
           rp == RootPlaceOf(u)
           tp == PathPlaceOf(u)
           n == Len(text)
           name == Len(u.hostname)
           digits == Digits(u.port)
           v6 == u.is_ipv6
           from == IF v6 THEN pp ELSE hp + 1
           colon == Find(COLON, text, from)
<1>1. /\ text \in Texts /\ n \in Nat /\ hp \in Nat /\ pp \in hp + 1 .. n /\ rp \in pp .. n
      /\ tp = rp + 1 /\ tp <= n /\ text[tp] = SLASH
  BY PrintedPlaces
<1>2. /\ v6 => /\ text[hp + 1] = "[" /\ Stands(text, hp + 1, u.hostname)
               /\ pp = hp + 1 + name + 1 /\ text[pp] = "]"
      /\ ~v6 => Stands(text, hp, u.hostname) /\ pp = hp + name
  BY PrintedPlaces, Zenon
<1>3. /\ u.port = 0 => rp = pp
      /\ u.port # 0 => /\ text[pp + 1] = COLON /\ Stands(text, pp + 1, digits)
                       /\ rp = pp + 1 + Len(digits)
  BY PrintedPlaces, Zenon
<1>4. name \in Nat /\ v6 \in BOOLEAN /\ (u.port # 0 => Len(digits) \in Nat)
  <2>1. u.port # 0 => digits \in Texts
    BY <1>3 DEF Stands
  <2>2. u.hostname \in Texts /\ v6 \in BOOLEAN
    BY DEF Printable, UriType, PartType
  <2> QED
    BY <2>1, <2>2, TextFacts
<1>5. /\ \A k \in hp + 1 .. rp : text[k] # SLASH
      /\ ~v6 => \A k \in hp + 1 .. pp : text[k] # COLON /\ text[k] # "["
      /\ v6 => \A k \in hp + 1 .. pp - 1 : text[k] # "]"
  <2>1. COLON \in Delimiters /\ "[" \in Delimiters
    BY DEF Delimiters
  <2>2. \A c \in {SLASH, QUESTION_MARK, HASHTAG, AT} : \A k \in hp + 1 .. rp : text[k] # c
    BY HostFree, Zenon
  <2>3. ~v6 => \A c \in Delimiters : \A k \in hp + 1 .. pp : text[k] # c
    BY HostFree, Zenon
  <2>4. v6 => \A k \in hp + 1 .. pp - 1 : text[k] # "]"
    BY HostFree, Zenon
  <2> QED
    BY <2>1, <2>2, <2>3, <2>4
<1>6. SchemeEnd(text) # 0 /\ p.host = hp + 1
  BY PrintedScheme, PrintedUser
<1>7. /\ p.v6 = (p.host <= n /\ text[p.host] = "[") /\ p.close = Find("]", text, p.host)
      /\ p.colon = (IF p.v6 /\ p.close # 0 /\ Find(COLON, text, p.host) # 0
                    THEN Find(COLON, text, p.close) ELSE Find(COLON, text, p.host))
      /\ p.path = Find(SLASH, text, p.host) /\ p.v6 \in BOOLEAN
  BY <1>1, <1>6, PlacesAre
<1>8. COLON # SLASH /\ COLON # "]"
  BY DEF COLON, SLASH
<1> HIDE DEF text, p, hp, pp, rp, tp, n, name, digits, v6
<1>9. p.v6 = v6
  <2>1. hp + 1 <= n /\ (~v6 => text[hp + 1] # "[")
    BY <1>1, <1>5
  <2>2. (p.host <= n /\ text[p.host] = "[") <=> v6
    BY <1>2, <1>6, <2>1
  <2> QED
    BY <1>4, <1>7, <2>2, Zenon
<1>10. p.path = tp
  <2>1. tp \in 0 .. Len(text) /\ hp + 1 \in Nat \ {0} /\ tp # 0 /\ tp >= hp + 1
    BY <1>1 DEF n
  <2>2. \A k \in hp + 1 .. tp - 1 : text[k] # SLASH
    BY <1>1, <1>5
  <2> QED
    BY <1>1, <1>6, <1>7, <2>1, <2>2, FindIs
<1>11. v6 => p.close = pp
  <2>1. pp \in 0 .. Len(text) /\ hp + 1 \in Nat \ {0} /\ pp # 0 /\ pp >= hp + 1
    BY <1>1 DEF n
  <2> QED
    BY <1>1, <1>2, <1>5, <1>6, <1>7, <2>1, FindIs
<1>12. from \in hp + 1 .. pp /\ from \in Nat \ {0} /\ \A k \in from .. pp : text[k] # COLON
  BY <1>1, <1>2, <1>5, <1>8
<1>13. p.colon = colon
  <2>1. CASE ~v6
    BY <1>6, <1>7, <1>9, <2>1
  <2>2. CASE v6
    <3>1. CASE Find(COLON, text, p.host) # 0
      <4>1. p.v6 /\ p.close # 0 /\ from = pp /\ p.close = pp
        BY <1>1, <1>9, <1>11, <2>2
      <4> HIDE DEF from
      <4> QED
        BY <1>7, <3>1, <4>1
    <3>2. CASE Find(COLON, text, p.host) = 0
      <4>1. \A k \in hp + 1 .. Len(text) : text[k] # COLON
        BY <1>1, <1>6, <3>2, Found
      <4>2. \A k \in pp .. Len(text) : text[k] # COLON
        BY <1>1, <4>1
      <4>3. colon = 0
        BY <1>1, <2>2, <4>2, FindIs
      <4> QED
        BY <1>7, <3>2, <4>3
    <3> QED
      BY <3>1, <3>2
  <2> QED
    BY <2>1, <2>2
<1>14. u.port # 0 => colon = pp + 1
  <2>1. u.port # 0 => pp + 1 \in 0 .. Len(text) /\ pp + 1 # 0 /\ pp + 1 >= from /\ (pp + 1) - 1 = pp
    <3> HIDE DEF from
    <3> QED
      BY <1>1, <1>3, <1>4, <1>12 DEF n
  <2> HIDE DEF from
  <2> QED
    BY <1>1, <1>3, <1>12, <2>1, FindIs
<1>15. u.port = 0 => ~(colon # 0 /\ colon < tp)
  <2> HIDE DEF from
  <2>1. colon # 0 => colon \in from .. Len(text) /\ text[colon] = COLON
    BY <1>1, <1>12, Found
  <2> HIDE DEF colon
  <2>2. u.port = 0 /\ colon # 0 /\ colon < tp => colon \in from .. pp
    BY <1>1, <1>3, <1>12, <2>1
  <2> QED
    BY <1>12, <2>1, <2>2
<1> HIDE DEF from, colon
<1>16. PortEnd(text, p) = tp
  BY <1>1, <1>10 DEF PortEnd
<1>17. HasPort(text, p) <=> u.port # 0
  <2>1. u.port # 0 => colon # 0 /\ colon < tp
    BY <1>1, <1>3, <1>4, <1>14
  <2> QED
    BY <1>13, <1>15, <1>16, <2>1 DEF HasPort
<1>18. HostText(text, p) = u.hostname
  <2>1. CASE v6
    <3>1. SubSeq(text, (hp + 1) + 1, (hp + 1) + name) = u.hostname
      BY <1>1, <1>2, <2>1, StandsCut DEF name
    <3>2. (hp + 1) + name = pp - 1
      BY <1>1, <1>2, <1>4, <2>1
    <3> QED
      BY <1>6, <1>9, <1>11, <2>1, <3>1, <3>2 DEF HostText
  <2>2. CASE ~v6
    <3>1. SubSeq(text, hp + 1, hp + name) = u.hostname
      BY <1>1, <1>2, <2>2, StandsCut DEF name
    <3>2. (IF HasPort(text, p) THEN p.colon ELSE tp) - 1 = hp + name
      BY <1>1, <1>2, <1>3, <1>13, <1>14, <1>17, <2>2
    <3>3. Or(p.path, Or(p.query, Or(p.fragment, Len(text) + 1))) = tp
      BY <1>1, <1>10 DEF Or
    <3> QED
      BY <1>6, <1>9, <2>2, <3>1, <3>2, <3>3 DEF HostText
  <2> QED
    BY <2>1, <2>2
<1>19. PortText(text, p) = (IF u.port = 0 THEN <<>> ELSE digits)
  <2>1. ASSUME u.port # 0 PROVE SubSeq(text, p.colon + 1, tp - 1) = digits
    <3>1. SubSeq(text, (pp + 1) + 1, (pp + 1) + Len(digits)) = digits
      BY <1>1, <1>3, <2>1, StandsCut
    <3>2. p.colon = pp + 1 /\ tp - 1 = (pp + 1) + Len(digits)
      BY <1>1, <1>3, <1>4, <1>13, <1>14, <2>1
    <3> QED
      BY <3>1, <3>2
  <2> QED
    BY <1>16, <1>17, <2>1 DEF PortText
<1>20. p.v6 => p.close # 0
  BY <1>1, <1>9, <1>11
<1> QED
  BY <1>9, <1>10, <1>18, <1>19, <1>20 DEF text, p, tp, v6, digits

LEMMA CutPart ==
    ASSUME NEW text \in Texts, NEW at, NEW part \in PartType, Stands(text, at, Text(part))
    PROVE  OrNull(SubSeq(text, at + 1, at + Len(Text(part)))) = part
<1>1. SubSeq(text, at + 1, at + Len(Text(part))) = Text(part)
  BY StandsCut
<1>2. OrNull(Text(part)) = part
  BY NullIsNone DEF OrNull, Text, PartType
<1> QED
  BY <1>1, <1>2

(* The path, the query and the fragment, once the host is found *)
LEMMA PrintedTail ==
    ASSUME NEW u, Printable(u), ~HidesUser(u)
    PROVE  LET text == uri_stringify(u)
               p == Places(text)
               path == PartAfter(text, p.path, PathEnd(text, p))
           IN  /\ ~(u.fragment # Null /\ u.query = Null) =>
                    /\ path = u.path
                    /\ PartAfter(text, p.query, QueryEnd(text, p)) = u.query
                    /\ PartAfter(text, p.fragment, Len(text)) = u.fragment
               /\ u.fragment # Null /\ u.query = Null /\ ParseCode(text) = "SUCCESS" => path # u.path
<1> DEFINE text == uri_stringify(u)
           p == Places(text)
           path == PartAfter(text, p.path, PathEnd(text, p))
           query == PartAfter(text, p.query, QueryEnd(text, p))
           frag == PartAfter(text, p.fragment, Len(text))
           hp == HostPlaceOf(u)
           rp == RootPlaceOf(u)
           tp == PathPlaceOf(u)
           qp == QueryPlaceOf(u)
           fp == FragPlaceOf(u)
           n == Len(text)
           m == Len(Text(u.path))
<1>1. /\ text \in Texts /\ n \in Nat /\ hp \in Nat /\ rp \in hp + 1 .. n
      /\ tp = rp + 1 /\ tp <= n /\ text[tp] = SLASH /\ qp \in tp .. n /\ fp \in qp .. n
      /\ Stands(text, tp, Text(u.path)) /\ qp = tp + m
  BY PrintedPlaces
<1>2. /\ u.query = Null => fp = qp
      /\ u.query # Null => /\ text[qp + 1] = QUESTION_MARK /\ Stands(text, qp + 1, u.query)
                           /\ fp = qp + 1 + Len(u.query)
      /\ u.fragment = Null => n = fp
      /\ u.fragment # Null => /\ text[fp + 1] = HASHTAG /\ Stands(text, fp + 1, u.fragment)
                              /\ n = fp + 1 + Len(u.fragment)
  BY PrintedPlaces, Zenon
<1>3. SchemeEnd(text) # 0 /\ p.host = hp + 1 /\ p.path = tp /\ tp # 0
  BY <1>1, PrintedScheme, PrintedUser, PrintedHost
<1>4. p.query = Find(QUESTION_MARK, text, hp + 1) /\ p.fragment = Find(HASHTAG, text, hp + 1)
  BY <1>1, <1>3, PlacesAre
<1>5. /\ u.path \in PartType /\ u.query \in PartType /\ u.fragment \in PartType
      /\ m \in Nat /\ (u.query # Null => Len(u.query) \in Nat)
      /\ u.fragment # Null => Len(u.fragment) \in Nat
  BY PartText, TextFacts DEF Printable, UriType, PartType
<1>6. /\ QUESTION_MARK \notin ToSet(Text(u.path))
      /\ u.query # Null => HASHTAG \notin ToSet(Text(u.path)) /\ HASHTAG \notin ToSet(u.query)
      /\ u.query = Null /\ u.fragment = Null => \A k \in 1 .. m - 1 : Text(u.path)[k] # HASHTAG
  BY DEF Printable, Plain
<1>7. /\ \A k \in hp + 1 .. rp : text[k] # QUESTION_MARK /\ text[k] # HASHTAG
      /\ SLASH # QUESTION_MARK /\ SLASH # HASHTAG /\ QUESTION_MARK # HASHTAG
  <2>1. \A c \in {SLASH, QUESTION_MARK, HASHTAG, AT} : \A k \in hp + 1 .. rp : text[k] # c
    BY HostFree, Zenon
  <2> QED
    BY <2>1 DEF SLASH, QUESTION_MARK, HASHTAG
<1>8. OrNull(SubSeq(text, tp + 1, qp)) = u.path
  BY <1>1, <1>5, CutPart
<1> HIDE DEF text, p, hp, rp, tp, qp, fp, n, m
<1>9. \A k \in hp + 1 .. qp : text[k] # QUESTION_MARK
  <2>1. \A k \in tp + 1 .. tp + m : text[k] # QUESTION_MARK
    BY <1>1, <1>6, StandsFree DEF m
  <2> TAKE k \in hp + 1 .. qp
  <2>2. k \in hp + 1 .. rp \/ k = tp \/ k \in tp + 1 .. tp + m
    BY <1>1
  <2> QED
    BY <1>1, <1>7, <2>1, <2>2
<1>10. ASSUME u.query # Null PROVE path = u.path /\ query = u.query /\ frag = u.fragment
  <2> DEFINE q == Len(u.query)
  <2>1. q \in Nat /\ fp = qp + 1 + q /\ Stands(text, qp + 1, Text(u.query))
    BY <1>2, <1>5, <1>10 DEF Text
  <2>2. OrNull(SubSeq(text, (qp + 1) + 1, (qp + 1) + q)) = u.query
    BY <1>1, <1>5, <1>10, <2>1, CutPart DEF Text
  <2>3. \A k \in hp + 1 .. fp : text[k] # HASHTAG
    <3>1. \A k \in tp + 1 .. tp + m : text[k] # HASHTAG
      BY <1>1, <1>6, <1>10, StandsFree DEF m
    <3>2. \A k \in (qp + 1) + 1 .. (qp + 1) + q : text[k] # HASHTAG
      BY <1>1, <1>2, <1>6, <1>10, StandsFree
    <3> HIDE DEF q
    <3> TAKE k \in hp + 1 .. fp
    <3>3. \/ k \in hp + 1 .. rp \/ k = tp \/ k \in tp + 1 .. tp + m
          \/ k = qp + 1 \/ k \in (qp + 1) + 1 .. (qp + 1) + q
      BY <1>1, <2>1
    <3> QED
      BY <1>1, <1>2, <1>7, <1>10, <3>1, <3>2, <3>3
  <2> HIDE DEF q
  <2>4. p.query = qp + 1
    <3>1. qp + 1 \in 0 .. Len(text) /\ hp + 1 \in Nat \ {0} /\ qp + 1 # 0 /\ qp + 1 >= hp + 1 /\ (qp + 1) - 1 = qp
      BY <1>1, <2>1 DEF n
    <3> QED
      BY <1>1, <1>2, <1>4, <1>9, <1>10, <3>1, FindIs
  <2>5. p.fragment = (IF u.fragment = Null THEN 0 ELSE fp + 1)
    <3>1. CASE u.fragment = Null
      <4>1. 0 \in 0 .. Len(text) /\ hp + 1 \in Nat \ {0} /\ fp = Len(text)
        BY <1>1, <1>2, <3>1 DEF n
      <4> QED
        BY <1>1, <1>4, <2>3, <3>1, <4>1, FindIs
    <3>2. CASE u.fragment # Null
      <4> DEFINE f == Len(u.fragment)
      <4>1. f \in Nat /\ n = fp + 1 + f
        BY <1>2, <1>5, <3>2
      <4> HIDE DEF f
      <4>2. fp + 1 \in 0 .. Len(text) /\ hp + 1 \in Nat \ {0} /\ fp + 1 # 0 /\ fp + 1 >= hp + 1 /\ (fp + 1) - 1 = fp
        BY <1>1, <4>1 DEF n
      <4>3. text[fp + 1] = HASHTAG /\ \A k \in hp + 1 .. (fp + 1) - 1 : text[k] # HASHTAG
        BY <1>2, <2>3, <3>2, <4>2
      <4> QED
        BY <1>1, <1>4, <3>2, <4>2, <4>3, FindIs
    <3> QED
      BY <3>1, <3>2
  <2>6. PathEnd(text, p) = qp /\ QueryEnd(text, p) = fp
    <3>1. fp + 1 # 0 /\ (fp + 1) - 1 = fp /\ qp + 1 # 0 /\ (qp + 1) - 1 = qp
      BY <1>1
    <3> QED
      BY <1>2, <2>4, <2>5, <3>1 DEF PathEnd, QueryEnd, n
  <2>7. path = u.path /\ query = u.query
    <3>1. (qp + 1) + q = fp /\ qp + 1 # 0
      BY <1>1, <2>1
    <3> QED
      BY <1>3, <1>8, <2>2, <2>4, <2>6, <3>1 DEF PartAfter
  <2>8. frag = u.fragment
    <3>1. CASE u.fragment = Null
      BY <2>5, <3>1 DEF PartAfter
    <3>2. CASE u.fragment # Null
      <4>1. Stands(text, fp + 1, Text(u.fragment)) /\ Len(text) = (fp + 1) + Len(Text(u.fragment))
        BY <1>2, <3>2 DEF Text, n
      <4>2. OrNull(SubSeq(text, (fp + 1) + 1, Len(text))) = u.fragment
        BY <1>1, <1>5, <4>1, CutPart
      <4>3. p.fragment = fp + 1 /\ fp + 1 # 0
        BY <1>1, <2>5, <3>2
      <4> QED
        BY <4>2, <4>3 DEF PartAfter
    <3> QED
      BY <3>1, <3>2
  <2> QED
    BY <2>7, <2>8
<1>11. ASSUME u.query = Null, u.fragment = Null PROVE path = u.path /\ query = u.query /\ frag = u.fragment
  <2>1. qp = n /\ p.query = 0
    <3>1. qp = n /\ 0 \in 0 .. Len(text) /\ hp + 1 \in Nat \ {0}
      BY <1>1, <1>2, <1>11 DEF n
    <3> QED
      BY <1>1, <1>4, <1>9, <3>1, FindIs DEF n
  <2>2. PathEnd(text, p) = qp
    BY <2>1 DEF PathEnd, n
  <2>3. path = u.path /\ query = u.query
    BY <1>3, <1>8, <1>11, <2>1, <2>2 DEF PartAfter
  <2>4. p.fragment \in {0, n}
    <3>1. p.fragment # 0 => p.fragment \in hp + 1 .. n /\ text[p.fragment] = HASHTAG
      BY <1>1, <1>4, Found DEF n
    <3>2. \A k \in 1 .. m - 1 : text[tp + k] # HASHTAG
      <4>1. \A k \in 1 .. m : text[tp + k] = Text(u.path)[k]
        BY <1>1 DEF Stands, m
      <4> QED
        BY <1>5, <1>6, <1>11, <4>1
    <3> DEFINE f == p.fragment
               k == f - tp
    <3> HIDE DEF f
    <3>3. ~(f # 0 /\ f # n)
      <4> SUFFICES ASSUME f # 0, f # n PROVE FALSE
        OBVIOUS
      <4>1. f \in hp + 1 .. rp \/ f = tp \/ k \in 1 .. m - 1
        <5>1. f \in hp + 1 .. n
          BY <3>1 DEF f
        <5> QED
          BY <1>1, <1>5, <2>1, <5>1
      <4>2. f = tp + k
        BY <1>1, <3>1 DEF f
      <4> HIDE DEF k
      <4> QED
        BY <1>1, <1>7, <3>1, <3>2, <4>1, <4>2 DEF f
    <3> QED
      BY <3>3 DEF f
  <2>5. frag = u.fragment
    <3>1. SubSeq(text, n + 1, n) = <<>>
      BY <1>1, SubSeqEmpty
    <3> QED
      BY <1>11, <2>4, <3>1 DEF PartAfter, OrNull, n
  <2> QED
    BY <2>3, <2>5
<1>12. ASSUME u.query = Null, u.fragment # Null, ParseCode(text) = "SUCCESS" PROVE path # u.path
  <2> DEFINE f == Len(u.fragment)
             whole == SubSeq(text, tp + 1, n)
  <2>1. fp = qp /\ f \in Nat /\ n = fp + 1 + f /\ text[fp + 1] = HASHTAG
    BY <1>2, <1>5, <1>12
  <2> HIDE DEF f
  <2>2. p.fragment # 0 /\ p.fragment <= fp + 1
    <3>1. fp + 1 \in hp + 1 .. Len(text) /\ hp + 1 \in Nat \ {0}
      BY <1>1, <2>1 DEF n
    <3>2. p.fragment # 0
      BY <1>1, <1>4, <2>1, <3>1, Found
    <3>3. \A k \in hp + 1 .. p.fragment - 1 : text[k] # HASHTAG
      BY <1>1, <1>4, <3>1, <3>2, Found
    <3>4. p.fragment \in Nat
      BY <1>1, <1>4, <3>1, Found
    <3> QED
      BY <1>1, <2>1, <3>1, <3>2, <3>3, <3>4
  <2>3. p.query # 0 => ~(p.fragment - 1 < p.query)
    BY <1>12, <2>2, SuccessIs DEF Accepts, QueryEnd, p
  <2>4. p.query # 0 => p.query \in hp + 1 .. n /\ text[p.query] = QUESTION_MARK
    BY <1>1, <1>4, Found DEF n
  <2>5. p.query = 0
    <3>1. p.fragment \in Nat
      BY <1>1, <1>4, Found
    <3>2. p.query # 0 => p.query \in hp + 1 .. qp
      BY <1>1, <2>1, <2>2, <2>3, <2>4, <3>1
    <3> QED
      BY <1>9, <2>4, <3>2
  <2>6. whole \in Texts /\ Len(whole) = n - tp
    <3>1. tp + 1 \in Nat \ {0} /\ n \in Int /\ n <= Len(text)
      BY <1>1 DEF n
    <3>2. Len(whole) = (IF tp + 1 <= n THEN n - (tp + 1) + 1 ELSE 0) /\ whole \in Texts
      BY <1>1, <3>1, Sub
    <3> HIDE DEF whole
    <3> QED
      BY <1>1, <3>2
  <2>7. path = OrNull(whole)
    BY <1>3, <2>5 DEF PartAfter, PathEnd, n
  <2>8. Len(whole) # m
    BY <1>1, <1>5, <2>1, <2>6
  <2>9. Text(path) = whole
    BY <2>6, <2>7, TextOrNull
  <2> QED
    BY <2>8, <2>9 DEF m
<1> QED
  BY <1>10, <1>11, <1>12 DEF text, p, n

(* Where the printed user information is left out, another "@" takes its place *)
LEMMA UserAppears ==
    ASSUME NEW u, Printable(u), HidesUser(u)
    PROVE  parse_uri(uri_stringify(u)).has_authentication # u.has_authentication
<1> DEFINE text == uri_stringify(u)
           p == Places(text)
           up == UserPlaceOf(u)
           tp == PathPlaceOf(u)
           qp == QueryPlaceOf(u)
           fp == FragPlaceOf(u)
           n == Len(text)
<1>1. /\ text \in Texts /\ n \in Nat /\ up \in Nat \ {0} /\ HostPlaceOf(u) \in Nat
      /\ PortPlaceOf(u) \in HostPlaceOf(u) + 1 .. n
      /\ tp \in up + 2 .. n /\ qp \in tp .. n /\ fp \in qp .. n
      /\ Stands(text, tp, Text(u.path))
      /\ u.query # Null => Stands(text, qp + 1, u.query)
      /\ u.fragment # Null => Stands(text, fp + 1, u.fragment)
  BY PrintedPlaces
<1>2. /\ u.is_ipv6 => text[HostPlaceOf(u) + 1] = "["
      /\ ~u.is_ipv6 => \A c \in Delimiters : \A k \in HostPlaceOf(u) + 1 .. PortPlaceOf(u) : text[k] # c
  BY PrintedPlaces, HostFree, Zenon
<1>3. HostPlaceOf(u) = up /\ ~u.has_authentication
  <2>1. UserInfo(u) = <<>> /\ Len(<<>>) = 0
    BY DEF HidesUser, UserInfo
  <2> QED
    BY <1>1, <2>1 DEF HidesUser, HostPlaceOf
<1>4. SchemeEnd(text) # 0 /\ p.start = up + 1 /\ p.at = Find(AT, text, up + 1)
  BY <1>1, PrintedScheme, PlacesAre
<1> HIDE DEF text, p, up, tp, qp, fp, n
<1>5. text[up + 1] # AT /\ text[up + 1] # COLON
  <2>1. AT \in Delimiters /\ COLON \in Delimiters /\ AT # "[" /\ COLON # "["
    BY DEF Delimiters, AT, COLON
  <2>2. up + 1 \in up + 1 .. PortPlaceOf(u)
    BY <1>1, <1>3
  <2> QED
    BY <1>2, <1>3, <2>1, <2>2
<1>6. \E k \in up + 2 .. n : text[k] = AT
  <2>1. \A at, part : Stands(text, at, part) /\ at >= up + 2 /\ AT \in ToSet(part) => \E k \in up + 2 .. n : text[k] = AT
    <3> TAKE at, part
    <3> SUFFICES ASSUME Stands(text, at, part), at >= up + 2, AT \in ToSet(part)
                 PROVE  \E k \in up + 2 .. n : text[k] = AT
      OBVIOUS
    <3> DEFINE m == Len(part)
    <3>1. at \in Nat /\ at + m <= n /\ m \in Nat /\ \A j \in 1 .. m : text[at + j] = part[j]
      BY TextFacts DEF Stands, n
    <3>2. PICK j \in 1 .. m : part[j] = AT
      BY TextFacts DEF ToSet, Stands
    <3> HIDE DEF m
    <3>3. at + j \in up + 2 .. n /\ text[at + j] = AT
      BY <1>1, <3>1, <3>2
    <3> QED
      BY <3>3
  <2>2. AT \notin ToSet(Text(Null)) /\ \A part : part # Null => Text(part) = part
    BY DEF Text, ToSet
  <2>3. tp >= up + 2 /\ qp + 1 >= up + 2 /\ fp + 1 >= up + 2
    BY <1>1
  <2>4. \/ AT \in ToSet(Text(u.path))
        \/ u.query # Null /\ AT \in ToSet(u.query)
        \/ u.fragment # Null /\ AT \in ToSet(u.fragment)
    <3>1. PICK part \in {u.path, u.query, u.fragment} : AT \in ToSet(Text(part))
      BY DEF HidesUser
    <3>2. part # Null /\ Text(part) = part
      BY <2>2, <3>1
    <3>3. AT \in ToSet(part)
      BY <3>1, <3>2, Zenon
    <3>4. part = u.path \/ part = u.query \/ part = u.fragment
      OBVIOUS
    <3> QED
      BY <3>1, <3>2, <3>3, <3>4, Zenon
  <2> QED
    BY <1>1, <2>1, <2>3, <2>4
<1>7. p.at \in up + 2 .. n
  <2>1. p.at # 0
    BY <1>1, <1>4, <1>6, Found DEF n
  <2>2. p.at \in up + 1 .. n /\ text[p.at] = AT
    BY <1>1, <1>4, <2>1, Found DEF n
  <2> QED
    BY <1>1, <1>5, <2>2
<1>8. UserEnd(text, p) \in up + 2 .. n
  <2> DEFINE colon == Find(COLON, text, up + 1)
  <2>1. colon # 0 => colon \in up + 1 .. n /\ text[colon] = COLON
    BY <1>1, Found DEF n
  <2>2. UserEnd(text, p) = (IF colon = 0 \/ colon > p.at THEN p.at ELSE colon)
    BY <1>4 DEF UserEnd
  <2> HIDE DEF colon
  <2> QED
    BY <1>1, <1>5, <1>7, <2>1, <2>2
<1>9. Username(text, p) # <<>>
  <2> DEFINE e == UserEnd(text, p)
  <2>1. Username(text, p) = SubSeq(text, up + 1, e - 1)
    <3>1. p.at # 0
      BY <1>1, <1>7
    <3> QED
      BY <1>4, <3>1 DEF Username
  <2> HIDE DEF e
  <2>2. up + 1 \in Nat \ {0} /\ e - 1 \in Int /\ e - 1 <= Len(text) /\ up + 1 <= e - 1
    BY <1>1, <1>8 DEF n, e
  <2>3. Len(SubSeq(text, up + 1, e - 1)) = (e - 1) - (up + 1) + 1
    BY <1>1, <2>2, Sub
  <2>4. Len(SubSeq(text, up + 1, e - 1)) # 0
    BY <1>1, <2>2, <2>3
  <2>5. Len(<<>>) = 0
    OBVIOUS
  <2> QED
    BY <2>1, <2>4, <2>5
<1>10. parse_uri(text).has_authentication = (Username(text, p) # <<>> \/ Password(text, p) # <<>>)
  BY PartsAre DEF p
<1> QED
  BY <1>3, <1>9, <1>10 DEF text

(* What was printed reads as it was, unless the user or the query that stands *)
(* between the path and the fragment is left out                              *)
LEMMA RoundTrip ==
    ASSUME NEW u, Printable(u), ParseCode(uri_stringify(u)) = "SUCCESS"
    PROVE  (parse_uri(uri_stringify(u)) = u) <=> (~(u.fragment # Null /\ u.query = Null) /\ ~HidesUser(u))
<1> DEFINE text == uri_stringify(u)
           p == Places(text)
           r == parse_uri(text)
<1>1. ASSUME HidesUser(u) PROVE r # u
  BY <1>1, UserAppears
<1>2. ASSUME ~HidesUser(u), u.fragment # Null, u.query = Null PROVE r # u
  <2>1. r.path = PartAfter(text, p.path, PathEnd(text, p))
    BY PartsAre
  <2> QED
    BY <1>2, <2>1, PrintedTail
<1>3. ASSUME ~HidesUser(u), ~(u.fragment # Null /\ u.query = Null) PROVE r = u
  <2>1. /\ r.scheme = Lowered(SubSeq(text, 1, SchemeEnd(text) - 1))
        /\ r.username = OrNull(Username(text, p)) /\ r.password = OrNull(Password(text, p))
        /\ r.has_authentication = (Username(text, p) # <<>> \/ Password(text, p) # <<>>)
        /\ r.hostname = (IF p.v6 THEN HostText(text, p) ELSE Lowered(HostText(text, p)))
        /\ r.is_ipv6 = p.v6
        /\ r.port = (IF PortText(text, p) = <<>> THEN 0 ELSE AtoI(PortText(text, p)))
        /\ r.path = PartAfter(text, p.path, PathEnd(text, p))
        /\ r.query = PartAfter(text, p.query, QueryEnd(text, p))
        /\ r.fragment = PartAfter(text, p.fragment, Len(text))
        /\ r = [scheme |-> r.scheme, username |-> r.username, password |-> r.password,
                has_authentication |-> r.has_authentication, hostname |-> r.hostname,
                is_ipv6 |-> r.is_ipv6, port |-> r.port, path |-> r.path, query |-> r.query,
                fragment |-> r.fragment]
    BY PartsAre
  <2>2. u = [scheme |-> u.scheme, username |-> u.username, password |-> u.password,
             has_authentication |-> u.has_authentication, hostname |-> u.hostname,
             is_ipv6 |-> u.is_ipv6, port |-> u.port, path |-> u.path, query |-> u.query,
             fragment |-> u.fragment]
    BY DEF Printable, UriType
  <2> HIDE DEF text, p, r
  <2>3. r.scheme = u.scheme
    BY <2>1, PrintedScheme DEF Printable, Plain, text
  <2>4. r.username = u.username /\ r.password = u.password /\ r.has_authentication = u.has_authentication
    BY <1>3, <2>1, PrintedUser DEF text, p
  <2>5. r.hostname = u.hostname /\ r.is_ipv6 = u.is_ipv6
    <3>1. p.v6 = u.is_ipv6 /\ HostText(text, p) = u.hostname /\ u.is_ipv6 \in BOOLEAN
      BY <1>3, PrintedHost DEF text, p, Printable, UriType
    <3>2. ~u.is_ipv6 => Lowered(u.hostname) = u.hostname
      BY DEF Printable, Plain
    <3> QED
      BY <2>1, <3>1, <3>2
  <2>6. r.port = u.port
    <3>1. PortText(text, p) = (IF u.port = 0 THEN <<>> ELSE Digits(u.port))
      BY <1>3, PrintedHost DEF text, p
    <3>2. u.port # 0 => u.port \in 1 .. MaxPort
      BY UriAssumption DEF Printable, UriType
    <3>3. u.port # 0 => Digits(u.port) # <<>> /\ AtoI(Digits(u.port)) = u.port
      BY <3>2, PortPrinted
    <3> QED
      BY <2>1, <3>1, <3>3
  <2>7. r.path = u.path /\ r.query = u.query /\ r.fragment = u.fragment
    BY <1>3, <2>1, PrintedTail DEF text, p
  <2> QED
    BY <2>1, <2>2, <2>3, <2>4, <2>5, <2>6, <2>7
<1> QED
  BY <1>1, <1>2, <1>3

-------------------------------------------------------------------------------
(* What is read, printed and asked for *)

LEMMA FollowedKeeps == Sound /\ Followed /\ Next => Followed'
<1> SUFFICES ASSUME Sound, Followed, Next PROVE Followed'
  OBVIOUS
<1>1. CASE Call
  BY <1>1 DEF Call, Followed
<1>2. CASE Capture
  <2>1. PICK places \in SUBSET Quotable(meant') :
          /\ {k \in DOMAIN meant' : meant'[k] = "%"} \subseteq places
          /\ source' = WithScheme(rfc3986_unquote_safe(QuotedAt(meant', places)))
    BY <1>2 DEF Capture
  <2>2. meant' \in Captured /\ pc' = "clean"
    BY <1>2 DEF Capture
  <2>3. source' = Link(meant')
    BY <2>1, <2>2, CapturedIsLink
  <2> QED
    BY <2>2, <2>3 DEF Followed
<1>3. CASE Clean
  <2> DEFINE read == uri_parse(source)
  <2>1. read.code = ParseCode(source) /\ (read.code = "SUCCESS" => read.uri = parse_uri(source))
    BY UriParseType DEF Sound, TypeOK
  <2>2. /\ pc = "clean" /\ UNCHANGED <<meant, source>>
        /\ IF read.code = "SUCCESS"
           THEN /\ uri' = read.uri /\ target' = uri_stringify([read.uri EXCEPT !.query = Rebuilt(@)])
                /\ pc' = "set_url"
           ELSE pc' = "done"
    BY <1>3 DEF Clean, Return
  <2> HIDE DEF read
  <2>3. ParseCode(source) = "SUCCESS" => source = Link(meant)
    <3>1. ParseCode(source) = "SUCCESS" => SchemeEnd(source) # 0
      BY SuccessIs DEF Accepts
    <3>2. source \in {meant, Link(meant)}
      BY <2>2 DEF Followed
    <3> QED
      BY <3>1, <3>2 DEF Link
  <2> QED
    BY <2>1, <2>2, <2>3 DEF Followed
<1>4. CASE SetUrl
  <2> DEFINE read == uri_parse(target)
  <2>1. read.code = ParseCode(target) /\ (read.code = "SUCCESS" => read.uri = parse_uri(target))
    BY UriParseType DEF Sound, TypeOK
  <2>2. /\ pc = "set_url" /\ UNCHANGED <<meant, source, uri, target>>
        /\ IF read.code = "SUCCESS"
           THEN request' = [uri |-> read.uri, host |-> HostHeader(read.uri)] /\ pc' = "send"
           ELSE pc' = "done"
    BY <1>4 DEF SetUrl, Return
  <2> HIDE DEF read
  <2> QED
    BY <2>1, <2>2 DEF Followed
<1>5. CASE Send
  BY <1>5 DEF Send, Followed
<1>6. CASE Receive \/ Answered
  <2>1. pc' \in {"redirect", "done"}
    BY <1>6 DEF Receive, Answered, Return
  <2> QED
    BY <2>1 DEF Followed
<1>7. CASE Redirect
  <2>1. pc' = "done" \/ (pc' = "clean" /\ source' = meant')
    BY <1>7 DEF Redirect, Return
  <2> QED
    BY <2>1 DEF Followed
<1> QED
  BY <1>1, <1>2, <1>3, <1>4, <1>5, <1>6, <1>7 DEF Next

(* The invariant says enough of a URL in a request *)
LEMMA RequestedIs ==
    ASSUME IInv, pc \in {"send", "answer"}
    PROVE  LET v == [uri EXCEPT !.query = Rebuilt(@)]
           IN  /\ uri \in UriType /\ v \in UriType
               /\ v.scheme = uri.scheme /\ v.hostname = uri.hostname /\ v.port = uri.port
               /\ v.path = uri.path /\ v.query = Rebuilt(uri.query) /\ (v.query = Null <=> uri.query = Null)
               /\ request.uri = v <=> ~(uri.fragment # Null /\ uri.query = Null) /\ ~HidesUser(uri)
<1> DEFINE v == [uri EXCEPT !.query = Rebuilt(@)]
<1>1. /\ source \in Texts /\ ParseCode(source) = "SUCCESS" /\ uri = parse_uri(source)
      /\ target = uri_stringify(v) /\ ParseCode(target) = "SUCCESS" /\ request.uri = parse_uri(target)
  BY DEF IInv, TypeOK, Followed
<1>2. uri \in UriType /\ AuthIsUser(uri) /\ IsParsed(uri) /\ Plain(uri)
  BY <1>1, ParsedType, ParsedPlain
<1>3. /\ v \in UriType /\ Plain(v)
      /\ v.scheme = uri.scheme /\ v.username = uri.username /\ v.password = uri.password
      /\ v.has_authentication = uri.has_authentication /\ v.hostname = uri.hostname
      /\ v.port = uri.port /\ v.path = uri.path
      /\ v.query = Rebuilt(uri.query) /\ v.fragment = uri.fragment
      /\ v.query = Null <=> uri.query = Null
      /\ HidesUser(v) <=> HidesUser(uri)
  BY <1>2, RebuiltPlain
<1> HIDE DEF v
<1>4. Printable(v)
  BY <1>2, <1>3 DEF Printable, AuthIsUser, IsParsed
<1>5. (parse_uri(target) = v) <=> (~(v.fragment # Null /\ v.query = Null) /\ ~HidesUser(v))
  BY <1>1, <1>4, RoundTrip
<1> QED
  BY <1>1, <1>2, <1>3, <1>5 DEF v

LEMMA NoOtherUser ==
    ASSUME NEW text \in Texts, SchemeEnd(text) # 0, ~Departs(text)
    PROVE  ~HidesUser(Reading(text))
<1> DEFINE s == Split(text)
           tail == TailAt(text)
<1>1. ~InTail(text, AT)
  BY InPlace
<1>2. /\ s.path = SubSeq(text, tail + 1, QueryAt(text) - 1)
      /\ s.query = SubSeq(text, QueryAt(text) + 1, FragAt(text) - 1)
      /\ s.fragment = SubSeq(text, FragAt(text) + 1, Len(text))
  BY SplitIs
<1>3. /\ Len(text) \in Nat /\ tail \in 1 .. Len(text) + 1 /\ FragAt(text) \in tail .. Len(text) + 1
      /\ QueryAt(text) \in tail .. FragAt(text)
  BY TailPlaces, TextFacts
<1>4. Reading(text).path = OrNull(s.path) /\ Reading(text).query = OrNull(s.query)
      /\ Reading(text).fragment = OrNull(s.fragment)
  BY DEF Reading, ReadingOf
<1> HIDE DEF s, tail
<1>5. \A i \in tail + 1 .. Len(text) + 2 : \A j \in 0 .. Len(text) :
        AT \notin ToSet(Text(OrNull(SubSeq(text, i, j))))
  <2> TAKE i \in tail + 1 .. Len(text) + 2
  <2> TAKE j \in 0 .. Len(text)
  <2>1. i \in Nat \ {0} /\ j \in Int /\ j <= Len(text)
    BY <1>3
  <2>2. SubSeq(text, i, j) \in Texts /\ (AT \in ToSet(SubSeq(text, i, j)) => \E k \in i .. j : text[k] = AT)
    BY <2>1, SubHas, Sub
  <2>3. \A k \in i .. j : k \in tail .. Len(text)
    BY <1>3
  <2>4. AT \notin ToSet(SubSeq(text, i, j))
    BY <1>1, <2>2, <2>3 DEF InTail, tail
  <2> QED
    BY <2>2, <2>4, TextOrNull
<1>6. /\ tail + 1 \in tail + 1 .. Len(text) + 2 /\ QueryAt(text) - 1 \in 0 .. Len(text)
      /\ QueryAt(text) + 1 \in tail + 1 .. Len(text) + 2 /\ FragAt(text) - 1 \in 0 .. Len(text)
      /\ FragAt(text) + 1 \in tail + 1 .. Len(text) + 2 /\ Len(text) \in 0 .. Len(text)
  BY <1>3
<1> QED
  BY <1>2, <1>4, <1>5, <1>6 DEF HidesUser

-------------------------------------------------------------------------------
(* Theorems *)

(* IInv holds of every state that the rounds of unalix_unshort_url reach, from *)
(* any URLs and with any answers: a captured link is unquoted to the link that *)
(* was quoted, and what is printed, requested and redirected is always a URL   *)
(* that parse_uri took (clean_url.c:60, 99-110, 287, http.c:448-464,           *)
(* 1003-1076). *)
THEOREM InductiveInvariant == Spec => []IInv
<1>1. Init => IInv
  BY InitSound DEF Init, Followed, IInv, Sound
<1>2. IInv /\ [Next]_vars => IInv'
  <2> SUFFICES ASSUME IInv, [Next]_vars PROVE IInv'
    OBVIOUS
  <2>1. CASE UNCHANGED vars
    <3>1. TypeOK' /\ AsParsed' /\ Followed' /\ Unfinished'
      BY <2>1 DEF IInv, TypeOK, AsParsed, Followed, Unfinished, vars, answered
    <3>2. BuffersHold' /\ LeadsWhereItSays'
      BY <2>1 DEF IInv, BuffersHold, LeadsWhereItSays, vars, answered
    <3> QED
      BY <3>1, <3>2 DEF IInv
  <2>2. CASE Next
    <3>1. Sound /\ Followed
      BY DEF IInv, Sound
    <3>2. Sound'
      BY <2>2, <3>1, CallKeeps, CaptureKeeps, CleanKeeps, SetUrlKeeps, SendKeeps, ReceiveKeeps,
         RedirectKeeps, AnsweredKeeps DEF Next
    <3>3. Followed'
      BY <2>2, <3>1, FollowedKeeps
    <3> QED
      BY <3>2, <3>3 DEF IInv, Sound
  <2> QED
    BY <2>1, <2>2
<1> QED
  BY <1>1, <1>2, PTL DEF Spec

(* A part of a URL is absent or not empty and a port is one a socket can have, *)
(* in every struct URI that uri_parse fills, and every header that is kept has *)
(* a name and a value (uri.c:33-338, http.c:617-774). *)
THEOREM TypeCorrect == Spec => []TypeOK
<1>1. IInv => TypeOK
  BY DEF IInv
<1> QED
  BY <1>1, InductiveInvariant, PTL

(* Whatever is printed, sent or normalised fits the buffer that was made for   *)
(* it, but for the NUL of a Host header with a port and of a request and for   *)
(* the byte before the path of httpnormpath (uri.c:357-410, http.c:354-446,    *)
(* utils.c:179-236). *)
THEOREM NoOverrun == Spec => []BuffersHold
<1>1. IInv => BuffersHold
  BY DEF IInv
<1> QED
  BY <1>1, InductiveInvariant, PTL

(* http_get_redirect makes of a Location the URL that RFC 3986 resolves it to, *)
(* its authority included, for every URL that was requested and every Location *)
(* but those of Strays and of LosesAuthority (http.c:1003-1076,               *)
(* utils.c:179-236). *)
THEOREM RedirectsLead == Spec => []LeadsWhereItSays
<1>1. IInv => LeadsWhereItSays
  BY DEF IInv
<1> QED
  BY <1>1, InductiveInvariant, PTL

(* The parser reads what it is given as RFC 3986 does, whatever text an application, a *)
(* rule or a server gives it, but for the texts of Departs (uri.c:17-323).    *)
THEOREM ReadingIsRFC == Spec => []ReadsAsRFC
<1>1. TypeOK => ReadsAsRFC
  <2> SUFFICES ASSUME TypeOK, source # <<>>, ~(SchemeEnd(source) > 0 /\ Departs(source))
               PROVE  \A parsed \in {uri_parse(source)} :
                        /\ parsed.code = "SUCCESS" <=> IsUrl(source)
                        /\ parsed.code = "SUCCESS" => parsed.uri = Reading(source)
    BY DEF ReadsAsRFC
  <2>1. source \in Texts
    BY DEF TypeOK
  <2> DEFINE read == uri_parse(source)
  <2>2. read = [code |-> ParseCode(source),
                uri  |-> IF ParseCode(source) = "SUCCESS" THEN parse_uri(source) ELSE NoUri]
    BY DEF uri_parse, ParseResult
  <2> HIDE DEF read
  <2>3. read.code = ParseCode(source) /\ (ParseCode(source) = "SUCCESS" => read.uri = parse_uri(source))
    BY <2>2
  <2>4. /\ ParseCode(source) = "SUCCESS" <=> IsUrl(source)
        /\ ParseCode(source) = "SUCCESS" => parse_uri(source) = Reading(source)
    <3>1. CASE SchemeEnd(source) \in {0, 1}
      BY <2>1, <3>1, NoScheme
    <3>2. CASE SchemeEnd(source) \notin {0, 1}
      <4>1. SchemeEnd(source) > 0
        BY <2>1, <3>2, SchemeFound
      <4> QED
        BY <2>1, <3>2, <4>1, ReadAlike
    <3> QED
      BY <3>1, <3>2
  <2> QED
    BY <2>3, <2>4 DEF read
<1> QED
  BY <1>1, TypeCorrect, PTL

(* The URL that is requested is the URL that was cleaned, for every URL there  *)
(* is: parse_uri takes apart what uri_stringify prints into the same parts,    *)
(* but for a fragment without a query and an empty user information before     *)
(* another "@" (clean_url.c:287, http.c:450). *)
THEOREM RequestIsKept == Spec => []Kept
<1>1. IInv => Kept
  BY RequestedIs DEF Kept
<1> QED
  BY <1>1, InductiveInvariant, PTL

(* What the server is asked for is what the link says by RFC 3986, in the      *)
(* request line and in the Host header, quoted in another URL or not, for      *)
(* every link but those of Departs (clean_url.c:99-110, http.c:367-446). *)
THEOREM RequestAsksForLink == Spec => []AsksForLink
<1>1. IInv => AsksForLink
  <2> DEFINE link == Link(meant)
             read == Reading(link)
             v == [uri EXCEPT !.query = Rebuilt(@)]
             port == IF read.port \in {0, IF read.scheme = <<"http">> THEN 80 ELSE 443}
                     THEN <<>> ELSE <<COLON>> \o Digits(read.port)
             query == IF read.query = Null THEN <<>> ELSE <<QUESTION_MARK>> \o Rebuilt(read.query)
  <2> SUFFICES ASSUME IInv, pc = "answer", ~Departs(link), read.scheme \in {<<"http">>, <<"https">>},
                      read.fragment # Null => read.query # Null
               PROVE  /\ IsUrl(link)
                      /\ message = Message(<<SLASH>> \o Text(read.path) \o query, read.hostname \o port)
    BY DEF AsksForLink
  <2>1. /\ link \in Texts /\ ParseCode(link) = "SUCCESS" /\ uri = parse_uri(link)
        /\ message = Message(Resource(request.uri), request.host) /\ request.host = HostHeader(request.uri)
    BY DEF IInv, TypeOK, AsParsed, Followed
  <2>2. SchemeEnd(link) \notin {0, 1}
    BY <2>1, SuccessIs DEF Accepts
  <2> HIDE DEF link
  <2>3. IsUrl(link) /\ uri = read
    BY <2>1, <2>2, ReadAlike
  <2>4. ~HidesUser(read)
    BY <2>1, <2>2, NoOtherUser
  <2> HIDE DEF read
  <2>5. /\ request.uri = v /\ v.scheme = read.scheme /\ v.hostname = read.hostname /\ v.port = read.port
        /\ v.path = read.path /\ v.query = Rebuilt(read.query) /\ (v.query = Null <=> read.query = Null)
    BY <2>3, <2>4, RequestedIs
  <2> HIDE DEF v
  <2>6. Resource(v) = <<SLASH>> \o Text(read.path) \o query
    BY <2>5 DEF Resource, Prefixed
  <2>7. HostHeader(v) = read.hostname \o port
    <3>1. <<"http">> # <<"https">>
      OBVIOUS
    <3> DEFINE printed == \/ v.scheme = <<"http">>  /\ v.port \notin {0, 80}
                          \/ v.scheme = <<"https">> /\ v.port \notin {0, 443}
    <3>2. HostHeader(v) = v.hostname \o (IF printed THEN <<COLON>> \o Digits(v.port) ELSE <<>>)
      BY DEF HostHeader, HTTP_PORT, HTTPS_PORT
    <3>3. printed <=> ~(read.port \in {0, IF read.scheme = <<"http">> THEN 80 ELSE 443})
      BY <2>5, <3>1
    <3> HIDE DEF printed
    <3> QED
      BY <2>5, <3>2, <3>3
  <2> QED
    BY <2>1, <2>3, <2>5, <2>6, <2>7
<1> QED
  BY <1>1, InductiveInvariant, PTL

===============================================================================
