------------------------------ MODULE UnshortUrl ------------------------------
(***************************************************************************)
(* unalix_unshort_url (src/unshort_url.c): clean the URL, request it, and  *)
(* follow the redirection in the response, until a page answers without    *)
(* one.  Other threads may load and unload the rulesets in between; the    *)
(* web answers as it likes, redirection cycles included.                   *)
(*                                                                         *)
(* The strings are heap blocks: `heap' maps a block to the URL it holds,   *)
(* or to Freed.  `url' and `target' are two pointers to one block for most *)
(* of the loop, and the caller may hand in a target from an earlier call.  *)
(* The caller may be the binding for Java (src/unalix_jni.c), which starts  *)
(* with a NULL target and makes a Java string of the result.               *)
(***************************************************************************)
EXTENDS Integers, FiniteSets

CONSTANTS
    Urls,           \* what a string can hold
    Cleaned,        \* Cleaned[u]: what unalix_clean_url makes of u
    Blocks,         \* heap blocks that malloc may return
    MaxRedirects,   \* HTTP_DEFAULT_MAX_REDIRECTS (src/http.h)
    Null, Freed     \* no block; a block given back

ASSUME UnshortAssumption ==
    /\ Cleaned \in [Urls -> Urls]
    /\ MaxRedirects \in Nat
    /\ Null \notin Blocks
    /\ Freed \notin Urls

VARIABLES
    pc,         \* "clean", "send", "redirect", "done" or "returned" (to Java)
    source,     \* the caller's source_url
    heap,       \* block -> the URL in it, or Freed
    url, location,  \* locals of the call
    target,     \* *target_url
    redirects,  \* total_redirects
    result,     \* what the call returned
    loaded,     \* some ruleset is loaded
    java,       \* the caller is the binding for Java
    string,     \* the Java string it returned, Null when it threw an exception
    sent,       \* history: how many requests were sent
    hop,        \* history: the URL last requested
    undefined   \* a step read, wrote or freed a block that is not allocated

binding == <<java, string>>
vars == <<pc, source, heap, url, location, target, redirects, result, loaded,
          binding, sent, hop, undefined>>

Pointers == Blocks \cup {Null}
Results == {"none", "success", "error", "empty", "too_many"}

TypeOK ==
    /\ pc \in {"clean", "send", "redirect", "done", "returned"}
    /\ source \in Urls
    /\ heap \in [Blocks -> Urls \cup {Freed}]
    /\ url \in Pointers /\ location \in Pointers /\ target \in Pointers
    /\ redirects \in 0 .. MaxRedirects + 1
    /\ result \in Results
    /\ loaded \in BOOLEAN /\ java \in BOOLEAN
    /\ string \in Urls \cup {Null}
    /\ sent \in Nat
    /\ hop \in Urls
    /\ undefined \in BOOLEAN

Allocated == {b \in Blocks : heap[b] # Freed}

(* free(p); free(NULL) does nothing. *)
Release(h, p) == [b \in Blocks |-> IF b = p THEN Freed ELSE h[b]]

(* The heap h with u in a new block b. *)
Holding(h, b, u) == [h EXCEPT ![b] = u]

Return(r) ==
    /\ pc' = "done"
    /\ result' = r

Dangling(p) == p # Null /\ p \notin Allocated

-------------------------------------------------------------------------------
(* Faulty variants of the actions below.  Nothing refers to them: each shows, *)
(* put in place of the action it is named after, that a property can fail.    *)

(* The freed location is not reset. *)
CleanUrlKeepingLocation ==
    /\ pc = "clean"
    /\ loaded
    /\ \E b \in Blocks \ Allocated :
         LET text == IF location \in Allocated THEN heap[location] ELSE source
         IN  heap' = Release(Release(Holding(heap, b, Cleaned[text]), location),
                             target)
             /\ url' = b /\ target' = b
    /\ undefined' = (undefined \/ Dangling(location) \/ Dangling(target))
    /\ pc' = "send"
    /\ UNCHANGED <<source, location, redirects, result, loaded, sent, hop, binding>>

(* The previous *target_url is overwritten without being freed. *)
CleanUrlLeaking ==
    /\ pc = "clean"
    /\ loaded
    /\ \E b \in Blocks \ Allocated :
         LET text == IF location = Null THEN source ELSE heap[location]
         IN  heap' = Release(Holding(heap, b, Cleaned[text]), location)
             /\ url' = b /\ target' = b
    /\ location' = Null
    /\ pc' = "send"
    /\ UNCHANGED <<source, redirects, result, loaded, sent, hop, undefined, binding>>

(* A request that fails is made again, and not counted. *)
SendRetried ==
    /\ pc = "send"
    /\ pc' = "clean"
    /\ UNCHANGED <<source, heap, url, location, target, redirects, result, loaded,
                   sent, hop, undefined, binding>>

(* The limit is compared before the redirection is counted. *)
RedirectedTooOften ==
    /\ pc = "redirect"
    /\ \E b \in Blocks \ Allocated, u \in Urls :
         /\ heap' = Holding(heap, b, u)
         /\ location' = b
    /\ redirects' = redirects + 1
    /\ IF redirects > MaxRedirects
       THEN Return("too_many")
       ELSE pc' = "clean" /\ UNCHANGED result
    /\ UNCHANGED <<source, url, target, loaded, sent, hop, undefined, binding>>

-------------------------------------------------------------------------------
(* unalix_clean_url on location, or at first on source_url; then the string *)
(* it read is freed.  A failure leaves url and *target_url as they were.    *)
CleanUrl ==
    /\ pc = "clean"
    /\ loaded
    /\ \E b \in Blocks \ Allocated :
         LET text == IF location = Null THEN source ELSE heap[location]
         IN  heap' = Release(Release(Holding(heap, b, Cleaned[text]), location),
                             target)
             /\ url' = b /\ target' = b
    /\ location' = Null
    /\ undefined' = (undefined \/ Dangling(location) \/ Dangling(target))
    /\ pc' = "send"
    /\ UNCHANGED <<source, redirects, result, loaded, sent, hop, binding>>

CleanUrlFailed ==
    /\ pc = "clean"
    /\ heap' = Release(heap, location)
    /\ undefined' = (undefined \/ Dangling(location))
    /\ location' = Null
    /\ Return(IF loaded THEN "error" ELSE "empty")
    /\ UNCHANGED <<source, url, target, redirects, loaded, sent, hop, binding>>

(* http_request_set_url and http_request_send, on the string url points to. *)
SendRequest ==
    /\ pc = "send"
    /\ undefined' = (undefined \/ url \notin Allocated)
    /\ hop' = IF url \in Allocated THEN heap[url] ELSE hop
    /\ sent' = sent + 1
    /\ pc' = "redirect"
    /\ UNCHANGED <<source, heap, url, location, target, redirects, result, loaded, binding>>

SendFailed ==
    /\ pc = "send"
    /\ Return("error")
    /\ UNCHANGED <<source, heap, url, location, target, redirects, loaded, sent,
                   hop, undefined, binding>>

(* http_get_redirect has set location, or left it alone when the response is *)
(* not a redirection; the call goes on while there is a location.            *)
Redirected ==
    /\ pc = "redirect"
    /\ \/ \E b \in Blocks \ Allocated, u \in Urls :
            /\ heap' = Holding(heap, b, u)
            /\ location' = b
       \/ /\ location # Null
          /\ UNCHANGED <<heap, location>>
    /\ redirects' = redirects + 1
    /\ IF redirects' > MaxRedirects
       THEN Return("too_many")
       ELSE pc' = "clean" /\ UNCHANGED result
    /\ UNCHANGED <<source, url, target, loaded, sent, hop, undefined, binding>>

Answered ==
    /\ pc = "redirect"
    /\ location = Null
    /\ Return("success")
    /\ UNCHANGED <<source, heap, url, location, target, redirects, loaded, sent,
                   hop, undefined, binding>>

(* A Location the library cannot resolve, or no memory for it. *)
RedirectFailed ==
    /\ pc = "redirect"
    /\ Return("error")
    /\ UNCHANGED <<source, heap, url, location, target, redirects, loaded, sent,
                   hop, undefined, binding>>

(* Java_com_amanoteam_libunalix_LibUnalix_unshortUrl makes a Java string of   *)
(* the result and frees it, or throws an exception and frees nothing.        *)
ReturnToJava ==
    /\ pc = "done" /\ java
    /\ IF result = "success"
       THEN /\ undefined' = (undefined \/ target \notin Allocated)
            /\ string' = IF target \in Allocated THEN heap[target] ELSE Null
            /\ heap' = Release(heap, target)
       ELSE UNCHANGED <<undefined, string, heap>>
    /\ pc' = "returned"
    /\ UNCHANGED <<source, url, location, target, redirects, result, loaded, java,
                   sent, hop>>

(* Another thread loads rulesets or unloads them. *)
Reload ==
    /\ pc \notin {"done", "returned"}
    /\ loaded' = ~loaded
    /\ UNCHANGED <<pc, source, heap, url, location, target, redirects, result,
                   sent, hop, undefined, binding>>

Done == pc = (IF java THEN "returned" ELSE "done") /\ UNCHANGED vars

-------------------------------------------------------------------------------
(* The caller's target pointer is NULL or a string from an earlier call. *)
Init ==
    /\ pc = "clean"
    /\ source \in Urls
    /\ java \in BOOLEAN /\ string = Null
    /\ target \in IF java THEN {Null} ELSE Pointers
    /\ heap \in {[b \in Blocks |-> IF b = target THEN u ELSE Freed] : u \in Urls}
    /\ url = Null
    /\ location = Null
    /\ redirects = 0
    /\ result = "none"
    /\ loaded \in BOOLEAN
    /\ sent = 0
    /\ hop = source
    /\ undefined = FALSE

Step ==
    \/ CleanUrl \/ CleanUrlFailed
    \/ SendRequest \/ SendFailed
    \/ Redirected \/ Answered \/ RedirectFailed
    \/ ReturnToJava

Next == Step \/ Reload \/ Done

Spec == Init /\ [][Next]_vars

(* Every request ends, by its timeout if by nothing else. *)
FairSpec == Spec /\ WF_vars(Step)

-------------------------------------------------------------------------------
(* Properties *)

(* No string is read after it was freed, and none is freed twice, although   *)
(* url and *target_url are one block while the next round overwrites both    *)
(* (unshort_url.c:31-57).                                                    *)
MemorySafe == ~undefined

(* *target_url is at all times NULL or a string the caller may read and must *)
(* free, also after an error; when the call returns nothing else is left,    *)
(* except the last location when there were too many redirections.  The      *)
(* binding for Java leaves nothing after a success, and after an error in a  *)
(* later round the target of the round before (unshort_url.c:43-57, 117-122, *)
(* unalix_jni.c:246-262).                                                    *)
Ownership ==
    LET left == (IF result = "too_many" THEN {target, location} ELSE {target}) \ {Null}
    IN  /\ pc # "returned" /\ target # Null => target \in Allocated
        /\ pc = "done" => Allocated = left
        /\ pc = "returned" => Allocated = IF result = "success" THEN {} ELSE left
        /\ result = "too_many" => location \notin {target, Null}

(* The URL a successful call returns is a cleaned one, and is the one that   *)
(* was requested and answered without a redirection; no call sends more than *)
(* one request more than the limit of redirections (unshort_url.c:103-128).  *)
ResultIsAnswered ==
    /\ result = "success" =>
         /\ hop = IF pc = "returned" THEN string ELSE heap[target]
         /\ \E u \in Urls : hop = Cleaned[u]
    /\ sent <= MaxRedirects + 1

(* Which strings there are at each point of a round, and how the requests     *)
(* are counted against the redirections *)
Strings ==
    /\ location # Null => pc \in {"clean", "done", "returned"} /\ location # target
    /\ pc = "clean" => Allocated = {target, location} \ {Null}
    /\ pc \in {"send", "redirect"} =>
         /\ url = target /\ target # Null /\ Allocated = {target}
         /\ \E u \in Urls : heap[target] = Cleaned[u]
    /\ pc = "redirect" => hop = heap[target]
    /\ result = "success" /\ pc = "done" => target # Null

Rounds ==
    /\ pc \in {"done", "returned"} <=> result # "none"
    /\ result = "none" => redirects <= MaxRedirects
    /\ pc \in {"clean", "send"} => sent = redirects
    /\ pc = "redirect" => sent = redirects + 1

(* The inductive invariant *)
IInv ==
    /\ TypeOK /\ Strings /\ Rounds
    /\ MemorySafe /\ Ownership /\ ResultIsAnswered

(* A call returns, even when the web redirects in a cycle and while other    *)
(* threads reload the rulesets (unshort_url.c:30-126).                       *)
UnshortReturns == <>(pc = IF java THEN "returned" ELSE "done")
===============================================================================
