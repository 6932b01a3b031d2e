---------------------------- MODULE RulesetRefresh ----------------------------
(***************************************************************************)
(* unalix_ruleset_check_update (src/src/ruleset.c) next to a call of       *)
(* unalix_ruleset_update and a server that goes on publishing.             *)
(*                                                                         *)
(* The check knows the ruleset file only by its modification time, which   *)
(* is when the file was written here, and the server's document by when it *)
(* was changed there.  Documents are numbered as they are published.       *)
(* Client and server read one clock.  What update does apart from reading  *)
(* a document and replacing the file is in RulesetUpdate; the file may be  *)
(* replaced by a rename, or by a copy that is cut at any point.            *)
(***************************************************************************)
EXTENDS Integers

CONSTANTS
    MaxTime,   \* bound: the last value of the clock
    MaxDoc,    \* bound: the documents that are published
    Summer     \* how far mktime may move a time that daylight saving affects

ASSUME RefreshAssumption ==
    MaxTime \in Nat /\ MaxDoc \in Nat \ {0} /\ Summer \in Nat

VARIABLES
    now,
    served,   \* the server's document and when it was changed
    file,     \* the ruleset file: the document it holds or is being made
              \* of, its modification time and whether it is all there;
              \* history: when the server sent that document, and whether
              \* the file was copied from another device
    temp,     \* the same of the temporary file of an update in progress
    upd,      \* "idle", "fetching", "written", "copying"
    chk,      \* "idle", "sent", "done"
    seen,     \* the file as the check found it with stat
    since,    \* the time in its If-Modified-Since
    result    \* what the check returned

vars == <<now, served, file, temp, upd, chk, seen, since, result>>
checking == <<chk, seen, since, result>>

Times == 0 .. MaxTime
Published == [doc : 1 .. MaxDoc, changed : Times]
(* Document 0 stands for no file. *)
Files == [doc : 0 .. MaxDoc, fetched : Times, mtime : Times,
          whole : BOOLEAN, copied : BOOLEAN]
NoFile == [doc |-> 0, fetched |-> 0, mtime |-> 0, whole |-> TRUE, copied |-> FALSE]

Results == {"none", "NOT_MODIFIED", "UPDATE_AVAILABLE", "STAT_FAILURE", "error"}

-------------------------------------------------------------------------------
(* The surroundings *)

Tick ==
    /\ now < MaxTime
    /\ now' = now + 1
    /\ UNCHANGED <<served, file, temp, upd, checking>>

Publish ==
    /\ served.doc < MaxDoc
    /\ served' = [doc |-> served.doc + 1, changed |-> now]
    /\ UNCHANGED <<now, file, temp, upd, checking>>

-------------------------------------------------------------------------------
(* Faulty variants *)

(* Last-Modified is compared with the time of the check. *)
UnchangedByNow == served.changed <= now

(* A document of the second the file was written in counts as newer. *)
UnchangedBefore == served.changed < seen.mtime

(* The file gets the date of the document. *)
RenameDated ==
    /\ upd = "written"
    /\ upd' = "idle"
    /\ file' = [temp EXCEPT !.mtime = served.changed]
    /\ temp' = NoFile
    /\ UNCHANGED <<now, served, checking>>

-------------------------------------------------------------------------------
(* unalix_ruleset_update *)

(* The server answers with the document it has. *)
Fetch ==
    /\ upd = "idle"
    /\ upd' = "fetching"
    /\ temp' = [doc |-> served.doc, fetched |-> now, mtime |-> now,
                whole |-> FALSE, copied |-> FALSE]
    /\ UNCHANGED <<now, served, file, checking>>

(* The last block of it is written to the temporary file, which passes the   *)
(* checks.                                                                   *)
WriteTemp ==
    /\ upd = "fetching"
    /\ upd' = "written"
    /\ temp' = [temp EXCEPT !.mtime = now, !.whole = TRUE]
    /\ UNCHANGED <<now, served, file, checking>>

(* Any failure before the file is touched. *)
GiveUp ==
    /\ upd \in {"fetching", "written"}
    /\ upd' = "idle"
    /\ temp' = NoFile
    /\ UNCHANGED <<now, served, file, checking>>

(* move_file on one device: rename keeps the modification time. *)
Rename ==
    /\ upd = "written"
    /\ upd' = "idle"
    /\ file' = temp
    /\ temp' = NoFile
    /\ UNCHANGED <<now, served, checking>>

(* move_file across devices: copy_file truncates the file ... *)
CopyBegin ==
    /\ upd = "written"
    /\ upd' = "copying"
    /\ file' = [temp EXCEPT !.mtime = now, !.whole = FALSE, !.copied = TRUE]
    /\ UNCHANGED <<now, served, temp, checking>>

(* ... writes a block of it, which may be the last ... *)
CopyBlock ==
    /\ upd = "copying"
    /\ ~file.whole
    /\ \E last \in BOOLEAN : file' = [file EXCEPT !.mtime = now, !.whole = last]
    /\ UNCHANGED <<now, served, temp, upd, checking>>

(* ... and ends, at the end of the source or because a read or a write fails, *)
(* if its process lives: the file stays as far as it has got.                 *)
CopyEnd ==
    /\ upd = "copying"
    /\ upd' = "idle"
    /\ temp' = NoFile
    /\ UNCHANGED <<now, served, file, checking>>

-------------------------------------------------------------------------------
(* unalix_ruleset_check_update *)

NoFileToCheck ==
    /\ chk = "idle"
    /\ file.doc = 0
    /\ chk' = "done"
    /\ result' = "STAT_FAILURE"
    /\ UNCHANGED <<now, served, file, temp, upd, seen, since>>

(* The modification time is read and the request is sent.  mktime takes the  *)
(* broken-down UTC time for local standard time and puts it right in place:  *)
(* where daylight saving is in force the header says an hour more.           *)
Stat ==
    /\ chk = "idle"
    /\ file.doc # 0
    /\ seen' = file
    /\ since' \in {file.mtime, file.mtime + Summer}
    /\ chk' = "sent"
    /\ UNCHANGED <<now, served, file, temp, upd, result>>

Answer(r) ==
    /\ chk = "sent"
    /\ chk' = "done"
    /\ result' = r
    /\ UNCHANGED <<now, served, file, temp, upd, seen, since>>

(* Last-Modified against the modification time; mktime moves both alike. *)
Unchanged == served.changed <= seen.mtime

(* 304: the server has compared the times itself. *)
AnswerNotModified == served.changed <= since /\ Answer("NOT_MODIFIED")

(* 200 with Last-Modified, also from servers that ignore If-Modified-Since. *)
AnswerDated == Answer(IF Unchanged THEN "NOT_MODIFIED" ELSE "UPDATE_AVAILABLE")

(* 200 without it. *)
AnswerUndated == Answer("UPDATE_AVAILABLE")

AnswerFailed == Answer("error")

(* The next check. *)
CheckAgain ==
    /\ chk = "done"
    /\ chk' = "idle"
    /\ seen' = NoFile
    /\ since' = 0
    /\ result' = "none"
    /\ UNCHANGED <<now, served, file, temp, upd>>

-------------------------------------------------------------------------------
Init ==
    /\ now = 0
    /\ served = [doc |-> 1, changed |-> 0]
    /\ file = NoFile /\ temp = NoFile /\ seen = NoFile
    /\ upd = "idle" /\ chk = "idle"
    /\ since = 0
    /\ result = "none"

Check ==
    \/ NoFileToCheck \/ Stat \/ AnswerNotModified \/ AnswerDated \/ AnswerUndated
    \/ AnswerFailed \/ CheckAgain

Update ==
    \/ Fetch \/ WriteTemp \/ GiveUp \/ Rename
    \/ CopyBegin \/ CopyBlock \/ CopyEnd

Next == Tick \/ Publish \/ Update \/ Check

Spec == Init /\ [][Next]_vars

-------------------------------------------------------------------------------
(* Properties *)

(* Types; a check is under way only for a file that was there. *)
TypeOK ==
    /\ now \in Times
    /\ served \in Published
    /\ file \in Files /\ temp \in Files /\ seen \in Files
    /\ upd \in {"idle", "fetching", "written", "copying"}
    /\ chk \in {"idle", "sent", "done"}
    /\ since \in Nat
    /\ result \in Results
    /\ chk = "sent" => seen.doc # 0 /\ since \in seen.mtime .. (seen.mtime + Summer)

(* When the check says that nothing was modified since the last update       *)
(* (errors.h:36), the file it looked at is of the server's document, or that *)
(* document replaced the file's after it was fetched and no later than the   *)
(* file was written, an hour of daylight saving allowed for                  *)
(* (ruleset.c:313-341, 375-440).  It says nothing of what the file holds: a  *)
(* copy from another device that is under way or was cut (utils.c:381-402)   *)
(* has a fresh date too.  No other file is less than a whole document.       *)
NotModifiedMeans ==
    [][chk = "sent" /\ result' = "NOT_MODIFIED" =>
         /\ \/ seen.doc = served.doc
            \/ /\ seen.fetched <= served.changed
               /\ served.changed <= seen.mtime + Summer
         /\ seen.whole \/ seen.copied]_vars

(* The answer that compares the times here reports an update only when the   *)
(* server has a later document than the one the file it looked at is, or is  *)
(* being, made of, even when an update runs in between; never for the very   *)
(* document that was installed (ruleset.c:387-442).                          *)
DatedMeans ==
    [][AnswerDated /\ result' = "UPDATE_AVAILABLE" => seen.doc < served.doc]_vars

(* The inductive invariant: a document on this side was the server's when it *)
(* was fetched, and a later one was changed no earlier than that.            *)
Dated(f) ==
    f.doc # 0 =>
        /\ f.fetched <= f.mtime /\ f.mtime <= now
        /\ f.doc <= served.doc
        /\ f.doc = served.doc => served.changed <= f.fetched
        /\ f.doc < served.doc => f.fetched <= served.changed

IInv ==
    /\ TypeOK
    /\ served.changed <= now
    /\ upd # "idle" => temp.doc # 0
    /\ upd = "written" => temp.whole
    /\ upd = "copying" => file.doc # 0 /\ file.copied
    /\ \A f \in {file, seen} : f.whole \/ f.copied
    /\ chk # "done" => result = "none"
    /\ Dated(file) /\ Dated(temp) /\ Dated(seen)
===============================================================================
