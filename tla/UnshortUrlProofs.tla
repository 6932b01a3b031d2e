--------------------------- MODULE UnshortUrlProofs ---------------------------
(***************************************************************************)
(* Theorems about UnshortUrl: the strings of the redirection loop and what *)
(* it returns, for any web, any URLs and cleaning, any limit of            *)
(* redirections and any number of blocks.                                  *)
(***************************************************************************)
EXTENDS UnshortUrl, TLAPS

USE UnshortAssumption

(* What a block of the heap holds. *)
LEMMA InBlock ==
    ASSUME TypeOK, NEW b \in Allocated
    PROVE  b \in Blocks /\ b # Null /\ heap[b] \in Urls
BY DEF TypeOK, Allocated

LEMMA InitInv == Init => IInv
<1> SUFFICES ASSUME Init PROVE IInv
  OBVIOUS
<1>1. PICK u \in Urls : heap = [b \in Blocks |-> IF b = target THEN u ELSE Freed]
  BY DEF Init
<1>2. target \in Pointers
  BY DEF Init, Pointers
<1>3. Allocated = {target} \ {Null}
  BY <1>1, <1>2 DEF Allocated, Pointers
<1>4. TypeOK
  <2>1. heap \in [Blocks -> Urls \cup {Freed}]
    BY <1>1
  <2>2. /\ redirects \in 0 .. MaxRedirects + 1 /\ sent \in Nat
        /\ pc \in {"clean", "send", "redirect", "done", "returned"} /\ result \in Results
        /\ url \in Pointers /\ location \in Pointers /\ string \in Urls \cup {Null}
    BY DEF Init, Pointers, Results
  <2>3. source \in Urls /\ hop \in Urls /\ loaded \in BOOLEAN /\ java \in BOOLEAN
    BY DEF Init
  <2>4. undefined \in BOOLEAN
    BY Zenon DEF Init
  <2> QED
    BY <1>2, <2>1, <2>2, <2>3, <2>4, Zenon DEF TypeOK
<1>5. Strings /\ Rounds
  BY <1>3 DEF Init, Strings, Rounds
<1>6. MemorySafe /\ Ownership /\ ResultIsAnswered
  BY <1>2, <1>3 DEF Init, MemorySafe, Ownership, ResultIsAnswered, Pointers
<1> QED
  BY <1>4, <1>5, <1>6 DEF IInv

(* The cleaned URL is the only string that is left of the ones before it. *)
LEMMA CleanUrlInv == IInv /\ CleanUrl => IInv'
<1> SUFFICES ASSUME IInv, CleanUrl PROVE IInv'
  OBVIOUS
<1> DEFINE text == IF location = Null THEN source ELSE heap[location]
<1>1. PICK b \in Blocks \ Allocated :
        /\ heap' = Release(Release(Holding(heap, b, Cleaned[text]), location), target)
        /\ url' = b /\ target' = b
  BY DEF CleanUrl
<1>2. /\ TypeOK /\ pc = "clean" /\ result = "none"
      /\ Allocated = {target, location} \ {Null}
  BY DEF IInv, Strings, Rounds, CleanUrl
<1>3. text \in Urls
  BY <1>2, InBlock DEF TypeOK, Pointers
<1>4. Cleaned[text] \in Urls
  BY <1>3
<1>5. b # Null /\ b # target /\ b # location
  BY <1>1, <1>2, Zenon
<1>6. heap' = [c \in Blocks |-> IF c = b THEN Cleaned[text]
                                ELSE IF c \in {location, target} THEN Freed ELSE heap[c]]
  BY <1>1, <1>2, <1>5 DEF Release, Holding, TypeOK
<1>7. \A c \in Blocks : c \notin {b, location, target} => heap[c] = Freed
  BY <1>2 DEF Allocated
<1>8. Allocated' = {b}
  BY <1>4, <1>6, <1>7 DEF Allocated
<1>9. /\ location' = Null /\ pc' = "send" /\ redirects' = redirects
      /\ result' = "none" /\ sent' = sent
      /\ UNCHANGED <<source, loaded, hop, java, string>>
  BY <1>2 DEF CleanUrl, binding
<1>10. undefined' = FALSE
  BY <1>2 DEF CleanUrl, IInv, MemorySafe, TypeOK, Dangling
<1>11. TypeOK'
  BY <1>1, <1>2, <1>4, <1>6, <1>9, <1>10 DEF TypeOK, Pointers, Results
<1>12. heap'[target'] = Cleaned[text]
  BY <1>1, <1>6
<1>13. Strings'
  BY <1>1, <1>3, <1>5, <1>8, <1>9, <1>12 DEF Strings
<1>14. Rounds'
  BY <1>2, <1>9 DEF IInv, Rounds
<1>15. MemorySafe' /\ Ownership'
  BY <1>1, <1>8, <1>9, <1>10 DEF MemorySafe, Ownership
<1>16. ResultIsAnswered'
  BY <1>9 DEF IInv, ResultIsAnswered
<1> QED
  BY <1>11, <1>13, <1>14, <1>15, <1>16 DEF IInv

(* An error in a later round leaves the target of the round before. *)
LEMMA CleanUrlFailedInv == IInv /\ CleanUrlFailed => IInv'
<1> SUFFICES ASSUME IInv, CleanUrlFailed PROVE IInv'
  OBVIOUS
<1>1. /\ TypeOK /\ pc = "clean" /\ result = "none"
      /\ Allocated = {target, location} \ {Null}
      /\ location # Null => location # target
  BY DEF IInv, Strings, Rounds, CleanUrlFailed
<1>2. heap' = [c \in Blocks |-> IF c = location THEN Freed ELSE heap[c]]
  BY DEF CleanUrlFailed, Release
<1>3. Allocated' = {target} \ {Null}
  BY <1>1, <1>2 DEF Allocated
<1>4. /\ location' = Null /\ pc' = "done" /\ result' \in {"error", "empty"}
      /\ UNCHANGED <<source, url, target, redirects, loaded, sent, hop, java, string>>
  BY DEF CleanUrlFailed, Return, binding
<1>5. undefined' = FALSE
  BY <1>1 DEF CleanUrlFailed, IInv, MemorySafe, TypeOK, Dangling
<1>6. TypeOK'
  BY <1>1, <1>2, <1>4, <1>5 DEF TypeOK, Pointers, Results
<1>7. Strings' /\ Rounds'
  BY <1>4 DEF Strings, Rounds
<1>8. MemorySafe' /\ Ownership'
  BY <1>3, <1>4, <1>5 DEF MemorySafe, Ownership
<1>9. ResultIsAnswered'
  BY <1>4 DEF IInv, ResultIsAnswered
<1> QED
  BY <1>6, <1>7, <1>8, <1>9 DEF IInv

LEMMA SendRequestInv == IInv /\ SendRequest => IInv'
<1> SUFFICES ASSUME IInv, SendRequest PROVE IInv'
  OBVIOUS
<1>1. /\ TypeOK /\ pc = "send" /\ result = "none" /\ location = Null /\ url = target
      /\ target # Null /\ Allocated = {target}
  BY DEF IInv, Strings, Rounds, SendRequest, TypeOK
<1>2. target \in Blocks /\ heap[target] \in Urls
  BY <1>1, InBlock
<1>3. hop' = heap[target] /\ undefined' = FALSE
  BY <1>1 DEF SendRequest, IInv, MemorySafe, TypeOK
<1>4. /\ pc' = "redirect" /\ sent' = sent + 1
      /\ UNCHANGED <<source, heap, url, location, target, redirects, result, loaded, java, string>>
  BY DEF SendRequest, binding
<1>5. Allocated' = Allocated
  BY <1>4 DEF Allocated
<1>6. TypeOK'
  <2>1. hop' \in Urls /\ undefined' \in BOOLEAN
    BY <1>2, <1>3, Zenon
  <2>2. sent' \in Nat /\ pc' \in {"clean", "send", "redirect", "done", "returned"}
    BY <1>1, <1>4 DEF TypeOK
  <2> QED
    BY <1>1, <1>4, <2>1, <2>2, Zenon DEF TypeOK, Pointers
<1>7. Strings'
  BY <1>1, <1>3, <1>4, <1>5 DEF IInv, Strings
<1>8. Rounds'
  BY <1>1, <1>4 DEF IInv, Rounds, TypeOK
<1>9. MemorySafe' /\ Ownership'
  BY <1>1, <1>3, <1>4, <1>5 DEF MemorySafe, Ownership
<1>10. ResultIsAnswered'
  BY <1>1, <1>4 DEF IInv, ResultIsAnswered, Rounds, TypeOK
<1> QED
  BY <1>6, <1>7, <1>8, <1>9, <1>10 DEF IInv

(* Between two rounds the target is the only string: the call may end there. *)
LEMMA EndsWithTarget ==
    ASSUME IInv, pc \in {"send", "redirect"},
           pc' = "done", result' \in {"success", "error"},
           result' = "success" => pc = "redirect",
           UNCHANGED <<source, heap, url, location, target, redirects, loaded, java,
                       string, sent, hop, undefined>>
    PROVE  IInv'
<1>1. /\ TypeOK /\ location = Null /\ target # Null /\ Allocated = {target}
      /\ result = "none"
  BY DEF IInv, Strings, Rounds
<1>2. Allocated' = {target'} /\ target' # Null
  BY <1>1 DEF Allocated
<1>3. TypeOK'
  BY <1>1 DEF TypeOK, Results
<1>4. Strings' /\ Rounds'
  BY <1>1, <1>2 DEF Strings, Rounds
<1>5. MemorySafe' /\ Ownership'
  BY <1>1, <1>2 DEF IInv, MemorySafe, Ownership
<1>6. ResultIsAnswered'
  BY <1>1 DEF IInv, ResultIsAnswered, Strings
<1> QED
  BY <1>3, <1>4, <1>5, <1>6 DEF IInv

LEMMA SendFailedInv == IInv /\ SendFailed => IInv'
BY EndsWithTarget DEF SendFailed, Return, binding

LEMMA AnsweredInv == IInv /\ Answered => IInv'
BY EndsWithTarget DEF Answered, Return, binding

LEMMA RedirectFailedInv == IInv /\ RedirectFailed => IInv'
BY EndsWithTarget DEF RedirectFailed, Return, binding

(* A location is a string next to the target; at the limit it stays there. *)
LEMMA RedirectedInv == IInv /\ Redirected => IInv'
<1> SUFFICES ASSUME IInv, Redirected PROVE IInv'
  OBVIOUS
<1>1. /\ TypeOK /\ pc = "redirect" /\ result = "none" /\ location = Null
      /\ target # Null /\ Allocated = {target} /\ sent = redirects + 1
      /\ redirects <= MaxRedirects /\ redirects \in Nat
  BY DEF IInv, Strings, Rounds, Redirected, TypeOK
<1>2. PICK b \in Blocks \ Allocated, u \in Urls : heap' = Holding(heap, b, u) /\ location' = b
  BY <1>1 DEF Redirected
<1>3. b # Null /\ b # target
  BY <1>1, <1>2, Zenon
<1>4. heap' = [c \in Blocks |-> IF c = b THEN u ELSE heap[c]]
  BY <1>1, <1>2 DEF Holding, TypeOK
<1>5. Allocated' = {target, b}
  BY <1>1, <1>2, <1>4 DEF Allocated
<1>6. /\ redirects' = redirects + 1
      /\ UNCHANGED <<source, url, target, loaded, java, string, sent, hop, undefined>>
  BY DEF Redirected, binding
<1>7. \/ pc' = "done" /\ result' = "too_many"
      \/ redirects' <= MaxRedirects /\ pc' = "clean" /\ result' = "none"
  BY <1>1, <1>6 DEF Redirected, Return
<1>8. TypeOK'
  BY <1>1, <1>2, <1>4, <1>6, <1>7 DEF TypeOK, Pointers, Results
<1>9. Strings'
  BY <1>1, <1>2, <1>3, <1>5, <1>6, <1>7 DEF Strings
<1>10. Rounds'
  BY <1>1, <1>6, <1>7 DEF Rounds
<1>11. MemorySafe' /\ Ownership'
  BY <1>1, <1>2, <1>3, <1>5, <1>6, <1>7 DEF IInv, MemorySafe, Ownership
<1>12. ResultIsAnswered'
  BY <1>1, <1>6, <1>7 DEF IInv, ResultIsAnswered
<1> QED
  BY <1>8, <1>9, <1>10, <1>11, <1>12 DEF IInv

(* The binding frees the result of a success, and nothing else. *)
LEMMA ReturnToJavaInv == IInv /\ ReturnToJava => IInv'
<1> SUFFICES ASSUME IInv, ReturnToJava PROVE IInv'
  OBVIOUS
<1>1. /\ TypeOK /\ pc = "done" /\ pc' = "returned"
      /\ UNCHANGED <<source, url, location, target, redirects, result, loaded, java, sent, hop>>
  BY DEF IInv, ReturnToJava
<1>2. Rounds'
  BY <1>1 DEF IInv, Rounds
<1>3. Strings'
  BY <1>1 DEF IInv, Strings
<1>4. CASE result = "success"
  <2>1. target # Null /\ Allocated = {target}
    BY <1>1, <1>4 DEF IInv, Strings, Ownership
  <2>2. target \in Blocks /\ heap[target] \in Urls
    BY <1>1, <2>1, InBlock
  <2>3. /\ undefined' = FALSE /\ string' = heap[target]
        /\ heap' = [c \in Blocks |-> IF c = target THEN Freed ELSE heap[c]]
    BY <1>1, <1>4, <2>1 DEF ReturnToJava, Release, IInv, MemorySafe, TypeOK
  <2>4. Allocated' = {}
    BY <1>1, <2>1, <2>3 DEF Allocated
  <2>5. TypeOK'
    BY <1>1, <2>2, <2>3 DEF TypeOK
  <2>6. MemorySafe' /\ Ownership'
    BY <1>1, <1>4, <2>3, <2>4 DEF MemorySafe, Ownership
  <2>7. ResultIsAnswered'
    BY <1>1, <1>4, <2>3 DEF IInv, ResultIsAnswered
  <2> QED
    BY <1>2, <1>3, <2>5, <2>6, <2>7 DEF IInv
<1>5. CASE result # "success"
  <2>1. UNCHANGED <<undefined, string, heap>>
    BY <1>5 DEF ReturnToJava
  <2>2. Allocated' = Allocated
    BY <2>1 DEF Allocated
  <2>3. TypeOK'
    BY <1>1, <2>1 DEF TypeOK
  <2>4. MemorySafe' /\ Ownership'
    BY <1>1, <1>5, <2>1, <2>2 DEF IInv, MemorySafe, Ownership
  <2>5. ResultIsAnswered'
    BY <1>1, <1>5, <2>1 DEF IInv, ResultIsAnswered
  <2> QED
    BY <1>2, <1>3, <2>3, <2>4, <2>5 DEF IInv
<1> QED
  BY <1>4, <1>5

LEMMA IdleInv == IInv /\ (Reload \/ UNCHANGED vars) => IInv'
<1> SUFFICES ASSUME IInv, Reload \/ UNCHANGED vars PROVE IInv'
  OBVIOUS
<1>1. /\ loaded' \in BOOLEAN
      /\ UNCHANGED <<pc, source, heap, url, location, target, redirects, result, java,
                     string, sent, hop, undefined>>
  BY DEF IInv, TypeOK, Reload, vars, binding
<1>2. Allocated' = Allocated
  BY <1>1 DEF Allocated
<1>3. TypeOK'
  BY <1>1 DEF IInv, TypeOK
<1>4. Strings' /\ Rounds'
  BY <1>1, <1>2 DEF IInv, Strings, Rounds
<1>5. MemorySafe' /\ Ownership' /\ ResultIsAnswered'
  BY <1>1, <1>2 DEF IInv, MemorySafe, Ownership, ResultIsAnswered
<1> QED
  BY <1>3, <1>4, <1>5 DEF IInv

(* The inductive invariant of the redirection loop: at each point of a round  *)
(* the strings there are, and the requests sent (unshort_url.c:30-126).       *)
THEOREM StringsAccounted == Spec => []IInv
<1>1. ASSUME IInv, [Next]_vars PROVE IInv'
  <2>1. CASE CleanUrl
    BY <1>1, <2>1, CleanUrlInv
  <2>2. CASE CleanUrlFailed
    BY <1>1, <2>2, CleanUrlFailedInv
  <2>3. CASE SendRequest
    BY <1>1, <2>3, SendRequestInv
  <2>4. CASE SendFailed
    BY <1>1, <2>4, SendFailedInv
  <2>5. CASE Redirected
    BY <1>1, <2>5, RedirectedInv
  <2>6. CASE Answered
    BY <1>1, <2>6, AnsweredInv
  <2>7. CASE RedirectFailed
    BY <1>1, <2>7, RedirectFailedInv
  <2>8. CASE ReturnToJava
    BY <1>1, <2>8, ReturnToJavaInv
  <2>9. CASE Reload \/ UNCHANGED vars
    BY <1>1, <2>9, IdleInv
  <2> QED
    BY <1>1, <2>1, <2>2, <2>3, <2>4, <2>5, <2>6, <2>7, <2>8, <2>9 DEF Next, Step, Done
<1> QED
  BY <1>1, InitInv, PTL DEF Spec

(* No string is read after it was freed, and none is freed twice             *)
(* (unshort_url.c:31-57).                                                    *)
THEOREM StringsAreSafe == Spec => []MemorySafe
<1>1. IInv => MemorySafe
  BY DEF IInv
<1> QED
  BY <1>1, StringsAccounted, PTL

(* What a call leaves is the target, and the last location at the limit; the *)
(* binding for Java leaves nothing of a success (unshort_url.c:43-57,         *)
(* 117-122, unalix_jni.c:246-262).                                           *)
THEOREM StringsAreOwned == Spec => []Ownership
<1>1. IInv => Ownership
  BY DEF IInv
<1> QED
  BY <1>1, StringsAccounted, PTL

(* A successful call returns the cleaned URL that answered, and no call sends *)
(* more requests than one more than the limit (unshort_url.c:103-128).        *)
THEOREM ResultAnswered == Spec => []ResultIsAnswered
<1>1. IInv => ResultIsAnswered
  BY DEF IInv
<1> QED
  BY <1>1, StringsAccounted, PTL
===============================================================================
