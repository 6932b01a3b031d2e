------------------------- MODULE RulesetRefreshProofs -------------------------
(***************************************************************************)
(* Theorems about RulesetRefresh: what the answers of the check mean, for   *)
(* any number of documents, any length of time and any shift of the clock   *)
(* by daylight saving.                                                      *)
(***************************************************************************)
EXTENDS RulesetRefresh, TLAPS

USE RefreshAssumption

(* The fields of what is kept of a file and of a document. *)
LEMMA FieldTypes ==
    /\ \A f \in Files : /\ f.doc \in 0 .. MaxDoc /\ f.fetched \in Times /\ f.mtime \in Times
                       /\ f.whole \in BOOLEAN /\ f.copied \in BOOLEAN
    /\ \A p \in Published : p.doc \in 1 .. MaxDoc /\ p.changed \in Times
BY DEF Files, Published

LEMMA NoFileType == NoFile \in Files /\ NoFile.doc = 0 /\ NoFile.whole
BY DEF NoFile, Files, Times

LEMMA InitInv == Init => IInv
<1> SUFFICES ASSUME Init PROVE IInv
  OBVIOUS
<1>1. served \in Published /\ served.changed = 0 /\ now \in Times
  BY DEF Init, Published, Times
<1>2. TypeOK
  BY <1>1, NoFileType DEF Init, TypeOK, Results
<1> QED
  BY <1>1, <1>2, NoFileType DEF Init, IInv, Dated

(* The surroundings: time passes, and a document replaces the one before. *)
LEMMA TickInv == IInv /\ Tick => IInv'
<1> SUFFICES ASSUME IInv, Tick PROVE IInv'
  OBVIOUS
<1>1. /\ now \in Nat /\ now' = now + 1 /\ now' \in Times
      /\ UNCHANGED <<served, file, temp, upd, chk, seen, since, result>>
  BY DEF IInv, TypeOK, Tick, checking, Times
<1>2. TypeOK'
  BY <1>1 DEF IInv, TypeOK
<1>3. ASSUME NEW f \in Files, Dated(f)
      PROVE  f.doc # 0 => /\ f.fetched <= f.mtime /\ f.mtime <= now'
                          /\ f.doc <= served.doc
                          /\ f.doc = served.doc => served.changed <= f.fetched
                          /\ f.doc < served.doc => f.fetched <= served.changed
  BY <1>1, <1>3, FieldTypes DEF Dated, Times
<1>4. file \in Files /\ temp \in Files /\ seen \in Files /\ served \in Published
  BY DEF IInv, TypeOK
<1>5. Dated(file)' /\ Dated(temp)' /\ Dated(seen)'
  BY <1>1, <1>3, <1>4 DEF IInv, Dated
<1>6. served'.changed <= now'
  BY <1>1, <1>4, FieldTypes DEF IInv, Times
<1> QED
  BY <1>1, <1>2, <1>5, <1>6 DEF IInv

LEMMA PublishInv == IInv /\ Publish => IInv'
<1> SUFFICES ASSUME IInv, Publish PROVE IInv'
  OBVIOUS
<1>1. /\ file \in Files /\ temp \in Files /\ seen \in Files /\ served \in Published
      /\ now \in Times
  BY DEF IInv, TypeOK
<1>2. /\ served' = [doc |-> served.doc + 1, changed |-> now] /\ served.doc < MaxDoc
      /\ UNCHANGED <<now, file, temp, upd, chk, seen, since, result>>
  BY DEF Publish, checking
<1>3. served' \in Published /\ served'.doc = served.doc + 1 /\ served'.changed = now
  BY <1>1, <1>2, FieldTypes DEF Published
<1>4. TypeOK'
  BY <1>2, <1>3 DEF IInv, TypeOK
<1>5. ASSUME NEW f \in Files, Dated(f)
      PROVE  f.doc # 0 => /\ f.fetched <= f.mtime /\ f.mtime <= now
                          /\ f.doc <= served'.doc
                          /\ f.doc = served'.doc => served'.changed <= f.fetched
                          /\ f.doc < served'.doc => f.fetched <= served'.changed
  BY <1>1, <1>3, <1>5, FieldTypes DEF Dated, Times
<1>6. Dated(file)' /\ Dated(temp)' /\ Dated(seen)'
  BY <1>1, <1>2, <1>5 DEF IInv, Dated
<1>7. served'.changed <= now'
  BY <1>1, <1>2, <1>3 DEF Times
<1> QED
  BY <1>2, <1>4, <1>6, <1>7 DEF IInv

(* A file that is written to at a later time. *)
LEMMA WrittenAt ==
    ASSUME IInv, NEW f \in Files, Dated(f), f.doc # 0,
           NEW whole \in BOOLEAN, NEW copied \in BOOLEAN
    PROVE  LET g == [f EXCEPT !.mtime = now, !.whole = whole, !.copied = copied]
           IN  g \in Files /\ g.doc # 0 /\ Dated(g) /\ g.whole = whole /\ g.copied = copied
<1> DEFINE g == [f EXCEPT !.mtime = now, !.whole = whole, !.copied = copied]
<1>1. now \in Times /\ g \in Files
  BY DEF IInv, TypeOK, Files
<1>2. /\ g.doc = f.doc /\ g.fetched = f.fetched /\ g.mtime = now
      /\ g.whole = whole /\ g.copied = copied
  BY DEF Files
<1>3. served \in Published
  BY DEF IInv, TypeOK
<1>4. Dated(g)
  BY <1>1, <1>2, <1>3, FieldTypes DEF Dated, Times
<1> QED
  BY <1>1, <1>2, <1>4

(* The update: the document of the server is dated when it is fetched, the    *)
(* file no earlier, and a file that is not whole is a copy.                  *)
LEMMA UpdateInv == IInv /\ Update => IInv'
<1> SUFFICES ASSUME IInv, Update PROVE IInv'
  OBVIOUS
<1>1. /\ file \in Files /\ temp \in Files /\ seen \in Files /\ served \in Published
      /\ now \in Times /\ served.changed <= now
      /\ upd # "idle" => temp.doc # 0
      /\ Dated(file) /\ Dated(temp)
  BY DEF IInv, TypeOK
<1>2. UNCHANGED <<now, served, chk, seen, since, result>>
  BY DEF Update, Fetch, WriteTemp, GiveUp, Rename, CopyBegin, CopyBlock, CopyEnd, checking
<1>3. SUFFICES /\ file' \in Files /\ temp' \in Files
               /\ upd' \in {"idle", "fetching", "written", "copying"}
               /\ upd' # "idle" => temp'.doc # 0
               /\ upd' = "written" => temp'.whole
               /\ upd' = "copying" => file'.doc # 0 /\ file'.copied
               /\ file'.whole \/ file'.copied
               /\ Dated(file)' /\ Dated(temp)'
  <2>1. TypeOK'
    BY <1>2, <1>3 DEF IInv, TypeOK
  <2>2. Dated(seen)' /\ (served.changed <= now)' /\ (seen'.whole \/ seen'.copied)
    BY <1>1, <1>2 DEF IInv, Dated
  <2>3. chk' # "done" => result' = "none"
    BY <1>2 DEF IInv
  <2> QED
    BY <1>3, <2>1, <2>2, <2>3 DEF IInv
<1>4. CASE Fetch
  <2>1. /\ temp' = [doc |-> served.doc, fetched |-> now, mtime |-> now,
                    whole |-> FALSE, copied |-> FALSE]
        /\ upd' = "fetching" /\ file' = file
    BY <1>4 DEF Fetch
  <2>2. temp' \in Files /\ temp'.doc # 0
    BY <1>1, <2>1, FieldTypes DEF Files
  <2>3. Dated(temp)'
    BY <1>1, <1>2, <2>1, FieldTypes DEF Dated, Times
  <2> QED
    BY <1>1, <1>2, <2>1, <2>2, <2>3 DEF IInv, Dated
<1>5. CASE WriteTemp
  <2>1. /\ temp' = [temp EXCEPT !.mtime = now, !.whole = TRUE] /\ upd = "fetching"
        /\ upd' = "written" /\ file' = file
    BY <1>5 DEF WriteTemp
  <2>2. temp' = [temp EXCEPT !.mtime = now, !.whole = TRUE, !.copied = temp.copied]
    BY <1>1, <2>1 DEF Files
  <2>3. temp.copied \in BOOLEAN /\ temp.doc # 0
    BY <1>1, <2>1, FieldTypes
  <2>4. temp' \in Files /\ temp'.doc # 0 /\ Dated(temp') /\ temp'.whole
    BY <1>1, <2>2, <2>3, WrittenAt
  <2> QED
    BY <1>1, <1>2, <2>1, <2>4 DEF IInv, Dated
<1>6. CASE GiveUp \/ CopyEnd
  <2>1. upd' = "idle" /\ temp' = NoFile /\ file' = file
    BY <1>6 DEF GiveUp, CopyEnd
  <2> QED
    BY <1>1, <1>2, <2>1, NoFileType DEF IInv, Dated
<1>7. CASE Rename
  <2>1. upd = "written" /\ upd' = "idle" /\ file' = temp /\ temp' = NoFile
    BY <1>7 DEF Rename
  <2>2. temp.whole /\ Dated(file)' /\ Dated(temp)'
    BY <1>1, <1>2, <2>1, NoFileType DEF IInv, Dated
  <2> QED
    BY <1>1, <2>1, <2>2, NoFileType
<1>8. CASE CopyBegin
  <2>1. /\ file' = [temp EXCEPT !.mtime = now, !.whole = FALSE, !.copied = TRUE]
        /\ upd = "written" /\ upd' = "copying" /\ temp' = temp
    BY <1>8 DEF CopyBegin
  <2>2. file' \in Files /\ file'.doc # 0 /\ Dated(file') /\ file'.copied
    BY <1>1, <2>1, WrittenAt
  <2> QED
    BY <1>1, <1>2, <2>1, <2>2 DEF Dated
<1>9. CASE CopyBlock
  <2>1. PICK last \in BOOLEAN : file' = [file EXCEPT !.mtime = now, !.whole = last]
    BY <1>9 DEF CopyBlock
  <2>2. upd = "copying" /\ upd' = upd /\ temp' = temp /\ file.doc # 0 /\ file.copied
    BY <1>9 DEF CopyBlock, IInv
  <2>3. file' = [file EXCEPT !.mtime = now, !.whole = last, !.copied = file.copied]
    BY <1>1, <2>1 DEF Files
  <2>4. file.copied \in BOOLEAN
    BY <1>1, FieldTypes
  <2>5. file' \in Files /\ file'.doc # 0 /\ Dated(file') /\ file'.copied
    BY <1>1, <2>2, <2>3, <2>4, WrittenAt
  <2> QED
    BY <1>1, <1>2, <2>2, <2>5 DEF Dated
<1> QED
  BY <1>4, <1>5, <1>6, <1>7, <1>8, <1>9 DEF Update

(* The check writes nothing but its own variables. *)
LEMMA CheckInv == IInv /\ Check => IInv'
<1> SUFFICES ASSUME IInv, Check PROVE IInv'
  OBVIOUS
<1>1. UNCHANGED <<now, served, file, temp, upd>>
  BY DEF Check, NoFileToCheck, Stat, AnswerNotModified, AnswerDated, AnswerUndated,
         AnswerFailed, Answer, CheckAgain
<1>2. SUFFICES /\ TypeOK' /\ Dated(seen)' /\ (seen'.whole \/ seen'.copied)
               /\ chk' # "done" => result' = "none"
  BY <1>1, <1>2 DEF IInv, Dated
<1>3. CASE NoFileToCheck
  <2>1. chk' = "done" /\ result' = "STAT_FAILURE" /\ UNCHANGED <<seen, since>>
    BY <1>3 DEF NoFileToCheck
  <2> QED
    BY <1>1, <2>1 DEF IInv, TypeOK, Results, Dated
<1>4. CASE Stat
  <2>1. /\ seen' = file /\ file.doc # 0 /\ chk' = "sent" /\ result' = "none"
        /\ since' \in {file.mtime, file.mtime + Summer}
    BY <1>4 DEF Stat, IInv
  <2>2. file \in Files /\ file.mtime \in Nat
    BY FieldTypes DEF IInv, TypeOK, Times
  <2>3. since' \in Nat /\ since' \in seen'.mtime .. (seen'.mtime + Summer)
    BY <2>1, <2>2
  <2>4. TypeOK'
    BY <1>1, <2>1, <2>3 DEF IInv, TypeOK, Results
  <2>5. Dated(seen)' /\ (seen'.whole \/ seen'.copied)
    BY <1>1, <2>1 DEF IInv, Dated
  <2> QED
    BY <2>1, <2>4, <2>5
<1>5. CASE AnswerNotModified \/ AnswerDated \/ AnswerUndated \/ AnswerFailed
  <2>1. chk' = "done" /\ result' \in Results /\ UNCHANGED <<seen, since>>
    BY <1>5 DEF AnswerNotModified, AnswerDated, AnswerUndated, AnswerFailed, Answer, Results
  <2> QED
    BY <1>1, <2>1 DEF IInv, TypeOK, Dated
<1>6. CASE CheckAgain
  <2>1. chk' = "idle" /\ seen' = NoFile /\ since' = 0 /\ result' = "none"
    BY <1>6 DEF CheckAgain
  <2> QED
    BY <1>1, <2>1, NoFileType DEF IInv, TypeOK, Results, Dated
<1> QED
  BY <1>3, <1>4, <1>5, <1>6 DEF Check

LEMMA NextInv == IInv /\ [Next]_vars => IInv'
<1> SUFFICES ASSUME IInv, [Next]_vars PROVE IInv'
  OBVIOUS
<1>1. CASE Next
  BY <1>1, TickInv, PublishInv, UpdateInv, CheckInv DEF Next
<1>2. CASE UNCHANGED vars
  BY <1>2 DEF vars, IInv, TypeOK, Dated
<1> QED
  BY <1>1, <1>2

-------------------------------------------------------------------------------
(* Theorems *)

(* The inductive invariant: the dates on this side are no earlier than the    *)
(* document they belong to, and no later than now; only copies are ever less  *)
(* than whole (ruleset.c:303-446, utils.c:362-440).                           *)
THEOREM DatesAgree == Spec => []IInv
BY InitInv, NextInv, PTL DEF Spec

(* "Not modified" is wrong about the date only of a document that was changed *)
(* between the fetch of the file's document and the last write to the file,   *)
(* an hour of daylight saving added (ruleset.c:313-341, 375-440).  About what *)
(* the file holds it is wrong only of a copy from another device, which may   *)
(* be under way or cut (utils.c:381-402); a file that was renamed is whole.   *)
THEOREM NotModifiedIsBounded == Spec => NotModifiedMeans
<1>1. ASSUME IInv, [Next]_vars, chk = "sent", result' = "NOT_MODIFIED"
      PROVE  /\ \/ seen.doc = served.doc
                \/ /\ seen.fetched <= served.changed
                   /\ served.changed <= seen.mtime + Summer
             /\ seen.whole \/ seen.copied
  <2>1. /\ seen \in Files /\ served \in Published /\ since \in Nat
        /\ seen.doc # 0 /\ since \in seen.mtime .. (seen.mtime + Summer)
    BY <1>1 DEF IInv, TypeOK
  <2>2. AnswerNotModified \/ AnswerDated
    <3>1. ~UNCHANGED <<chk, result>>
      BY <1>1 DEF IInv
    <3> QED
      BY <1>1, <3>1
         DEF Next, vars, checking, Tick, Publish, Update, Fetch, WriteTemp, GiveUp, Rename, CopyBegin,
             CopyBlock, CopyEnd, Check,
             NoFileToCheck, Stat, AnswerUndated, AnswerFailed, Answer, CheckAgain
  <2>3. seen.doc # served.doc => seen.fetched <= served.changed
    BY <1>1, <2>1, FieldTypes DEF IInv, Dated, Times
  <2>4. served.changed <= seen.mtime + Summer
    <3>1. served.changed \in Nat /\ seen.mtime \in Nat
      BY <2>1, FieldTypes DEF Times
    <3>2. CASE AnswerNotModified
      BY <2>1, <3>1, <3>2 DEF AnswerNotModified
    <3>3. CASE AnswerDated
      BY <1>1, <3>1, <3>3 DEF AnswerDated, Answer, Unchanged
    <3> QED
      BY <2>2, <3>2, <3>3
  <2> QED
    BY <1>1, <2>3, <2>4 DEF IInv
<1> QED
  BY <1>1, DatesAgree, PTL DEF NotModifiedMeans, Spec

(* An update that is reported by comparing dates is there: the server has a   *)
(* later document than the one the file was made of (ruleset.c:387-442).      *)
THEOREM DatedUpdateExists == Spec => DatedMeans
<1>1. ASSUME IInv, AnswerDated, result' = "UPDATE_AVAILABLE"
      PROVE  seen.doc < served.doc
  <2>1. seen \in Files /\ served \in Published /\ seen.doc # 0 /\ Dated(seen)
    BY <1>1 DEF IInv, TypeOK, AnswerDated, Answer
  <2>2. ~(served.changed <= seen.mtime)
    BY <1>1 DEF AnswerDated, Answer, Unchanged
  <2>3. /\ served.changed \in Nat /\ seen.mtime \in Nat /\ seen.fetched \in Nat
        /\ seen.doc \in Nat /\ served.doc \in Nat
    BY <2>1, FieldTypes DEF Times
  <2> QED
    BY <2>1, <2>2, <2>3 DEF Dated
<1> QED
  BY <1>1, DatesAgree, PTL DEF DatedMeans, Spec
===============================================================================
