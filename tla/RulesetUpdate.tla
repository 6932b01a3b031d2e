----------------------------- MODULE RulesetUpdate -----------------------------
(***************************************************************************)
(* unalix_ruleset_update (src/ruleset.c) and the file operations it is     *)
(* made of (src/utils.c, src/sha256.c), run by several updaters over one   *)
(* file system: threads or processes that refresh the same destination     *)
(* file, each downloading to "ruleset.json" in its temporary directory.    *)
(*                                                                         *)
(* One action per step after which another updater, a crash or the server  *)
(* may intervene.  A file is an inode: `entry' maps a path to an inode and *)
(* `content' an inode to its blocks, so that a file renamed, truncated or  *)
(* unlinked while another call has it open behaves as POSIX says.          *)
(***************************************************************************)
EXTENDS Integers, Sequences, FiniteSets

CONSTANTS
    Updaters,     \* concurrent callers of unalix_ruleset_update
    Dirs,         \* temporary directories; also names the file inside each
    TempDir,      \* TempDir[u]: the temporary_directory updater u passes
    OtherDevice,  \* the directories on another file system than Dest
    Dest,         \* the path every updater installs to
    Checked,      \* the updaters that pass a sha256_url
    Exclusive,    \* TRUE: callers never overlap two calls in one directory
    Docs,         \* the documents the server may hand out
    Loadable,     \* those load_file accepts
    Blocks,       \* length of a document, in chunks
    Inodes, NoInode, NoDoc, Hole, Torn, NoOne

ASSUME UpdateAssumption ==
    /\ TempDir \in [Updaters -> Dirs]
    /\ OtherDevice \subseteq Dirs
    /\ Dest \notin Dirs
    /\ Checked \subseteq Updaters
    /\ Exclusive \in BOOLEAN
    /\ Loadable \subseteq Docs
    /\ Blocks \in Nat \ {0}
    /\ NoInode \notin Inodes
    /\ NoDoc \notin Docs
    /\ Torn \notin Docs \cup {NoDoc}
    /\ Hole \notin Docs
    /\ NoOne \notin Updaters

VARIABLES
    pc,        \* where each call stands; "idle" outside a call
    got,       \* the document its response carries
    off,       \* blocks written so far through its open stream
    fd,        \* the inode it has open for writing, or NoInode
    src,       \* the inode copy_file reads from, or NoInode
    vouch,     \* the document the fetched hash belongs to, or NoDoc
    result,    \* what its last call returned
    entry,     \* path -> inode
    content,   \* inode -> its blocks
    leaked,    \* those with a stream left open by a call that has returned
    installer, \* history: the last updater that put a file at Dest
    warrant    \* history: the document whose hash that updater had fetched

call == <<pc, got, off, fd, src, vouch, result>>
disk == <<entry, content>>
history == <<installer, warrant>>
lasting == <<leaked, history>>
vars == <<call, disk, lasting>>

Paths == Dirs \cup {Dest}
Stages == {"idle", "open", "write", "hash", "digest", "load", "move", "copy"}
Results == {"none", "success", "error", "cannot_move"}
Bytes == Docs \cup {Hole}

CallType ==
    /\ pc \in [Updaters -> Stages]
    /\ got \in [Updaters -> Docs \cup {NoDoc}]
    /\ off \in [Updaters -> Nat]
    /\ fd \in [Updaters -> Inodes \cup {NoInode}]
    /\ src \in [Updaters -> Inodes \cup {NoInode}]
    /\ vouch \in [Updaters -> Docs \cup {NoDoc}]
    /\ result \in [Updaters -> Results]

DiskType ==
    /\ entry \in [Paths -> Inodes \cup {NoInode}]
    /\ content \in [Inodes -> Seq(Bytes)]

TypeOK ==
    /\ CallType
    /\ DiskType
    /\ leaked \subseteq Updaters
    /\ installer \in Updaters \cup {NoOne}
    /\ warrant \in Docs \cup {NoDoc}

-------------------------------------------------------------------------------
(* Documents and files *)

(* The content of a file that holds all of document d and nothing else. *)
Whole(d) == [k \in 1 .. Blocks |-> d]

(* The content c after block b is written at block position k: a write past *)
(* the end of a file another call has truncated leaves a hole.              *)
WriteAt(c, k, b) ==
    [i \in 1 .. (IF Len(c) > k THEN Len(c) ELSE k) |->
        IF i = k THEN b ELSE IF i <= Len(c) THEN c[i] ELSE Hole]

Temp(u) == TempDir[u]
TempFile(u) == entry[Temp(u)]
TempHolds(u, d) == TempFile(u) # NoInode /\ content[TempFile(u)] = Whole(d)

Free(i) ==
    /\ \A p \in Paths : entry[p] # i
    /\ \A u \in Updaters : fd[u] # i /\ src[u] # i

(* fopen(p, "wb"): an existing file keeps its inode and loses its content. *)
Create(u, p) ==
    \E i \in Inodes :
        /\ IF entry[p] = NoInode THEN Free(i) ELSE i = entry[p]
        /\ fd' = [fd EXCEPT ![u] = i]
        /\ off' = [off EXCEPT ![u] = 0]
        /\ entry' = [entry EXCEPT ![p] = i]
        /\ content' = [content EXCEPT ![i] = <<>>]

(* remove_file of the temporary file: by name, whoever's file it now is. *)
RemoveTemp(u) == entry' = [entry EXCEPT ![Temp(u)] = NoInode]

(* Close what the call has open and go on to the next stage. *)
Close(u) ==
    /\ fd' = [fd EXCEPT ![u] = NoInode]
    /\ src' = [src EXCEPT ![u] = NoInode]
    /\ off' = [off EXCEPT ![u] = 0]

Goto(u, stage) == pc' = [pc EXCEPT ![u] = stage]

(* The call returns r: its locals are gone, and the streams it had opened to *)
(* read or write in a loop are closed.                                       *)
Return(u, r) ==
    /\ Goto(u, "idle")
    /\ result' = [result EXCEPT ![u] = r]
    /\ got' = [got EXCEPT ![u] = NoDoc]
    /\ vouch' = [vouch EXCEPT ![u] = NoDoc]
    /\ Close(u)

(* The file u has renamed, or begun to copy, is the one at Dest from now on. *)
Installs(u) ==
    /\ installer' = u
    /\ warrant' = vouch[u]

-------------------------------------------------------------------------------
(* Faulty variants of the actions below.  Nothing refers to them: each shows, *)
(* put in place of the action it is named after, that a property can fail.    *)

(* The download goes straight to the destination. *)
OpenInPlace(u) ==
    /\ pc[u] = "open"
    /\ Create(u, Dest)
    /\ Goto(u, "write")
    /\ UNCHANGED <<got, src, vouch, result, lasting>>

(* The stream is not closed when the download fails. *)
DownloadFailedOpen(u) ==
    /\ pc[u] = "write"
    /\ RemoveTemp(u)
    /\ Goto(u, "idle")
    /\ UNCHANGED <<got, off, fd, src, vouch, result, content, lasting>>

(* A failed download is tried again, as often as it takes. *)
DownloadRetried(u) ==
    /\ pc[u] = "write"
    /\ RemoveTemp(u)
    /\ Close(u)
    /\ Goto(u, "open")
    /\ UNCHANGED <<got, vouch, result, content, lasting>>

(* A hash that does not match is reported but not acted on. *)
CompareIgnored(u) ==
    /\ pc[u] = "digest"
    /\ Goto(u, "load")
    /\ UNCHANGED <<got, off, fd, src, vouch, result, disk, lasting>>

(* The file is moved whether it loads or not. *)
LoadIgnored(u) ==
    /\ pc[u] = "load"
    /\ Goto(u, "move")
    /\ UNCHANGED <<got, off, fd, src, vouch, result, disk, lasting>>

-------------------------------------------------------------------------------
(* ruleset_update *)

(* The request for the ruleset: the response carries one document, whichever *)
(* the server holds by now, or the request fails.                            *)
Request(u) ==
    /\ pc[u] = "idle"
    /\ Exclusive =>
         \A w \in Updaters \ {u} : pc[w] # "idle" => Temp(w) # Temp(u)
    /\ \/ /\ Goto(u, "open")
          /\ \E d \in Docs : got' = [got EXCEPT ![u] = d]
          /\ result' = [result EXCEPT ![u] = "none"]
          /\ UNCHANGED <<off, fd, src, vouch>>
       \/ Return(u, "error")
    /\ UNCHANGED <<disk, lasting>>

(* fopen of the temporary file. *)
Open(u) ==
    /\ pc[u] = "open"
    /\ \/ /\ Create(u, Temp(u))
          /\ Goto(u, "write")
          /\ UNCHANGED <<got, src, vouch, result>>
       \/ /\ Return(u, "error")
          /\ UNCHANGED disk
    /\ UNCHANGED lasting

(* One turn of the receive loop: a chunk goes to the open stream. *)
ReadChunk(u) ==
    /\ pc[u] = "write"
    /\ off[u] < Blocks
    /\ content' = [content EXCEPT ![fd[u]] = WriteAt(@, off[u] + 1, got[u])]
    /\ off' = [off EXCEPT ![u] = @ + 1]
    /\ UNCHANGED <<pc, got, fd, src, vouch, result, entry, lasting>>

(* The peer closes the connection.  Nothing compares what arrived with the *)
(* length announced, and the result of fclose is ignored: the stream may   *)
(* end after any block.                                                    *)
DownloadEnd(u) ==
    /\ pc[u] = "write"
    /\ Close(u)
    /\ Goto(u, IF u \in Checked THEN "hash" ELSE "load")
    /\ UNCHANGED <<got, vouch, result, disk, lasting>>

(* A receive or write error: the temporary file is closed and removed. *)
DownloadFailed(u) ==
    /\ pc[u] = "write"
    /\ RemoveTemp(u)
    /\ Return(u, "error")
    /\ UNCHANGED <<content, lasting>>

(* The second request, for the hash.  The body is the hash of some document  *)
(* or 64 bytes that are no document's (NoDoc).  A failure to connect or to   *)
(* send, a bad status or a short body returns and leaves the temporary file  *)
(* behind; only a failure while the body is read removes it.                 *)
FetchHash(u) ==
    /\ pc[u] = "hash"
    /\ \/ /\ \E h \in Docs \cup {NoDoc} : vouch' = [vouch EXCEPT ![u] = h]
          /\ Goto(u, "digest")
          /\ UNCHANGED <<got, off, fd, src, result, entry>>
       \/ /\ Return(u, "error")
          /\ UNCHANGED entry
       \/ /\ Return(u, "error")
          /\ RemoveTemp(u)
    /\ UNCHANGED <<content, lasting>>

(* sha256_digest of the temporary file, opened by name, against the hash. *)
CompareDigest(u) ==
    /\ pc[u] = "digest"
    /\ \/ /\ vouch[u] # NoDoc
          /\ TempHolds(u, vouch[u])
          /\ Goto(u, "load")
          /\ UNCHANGED <<got, off, fd, src, vouch, result, entry>>
       \/ /\ RemoveTemp(u)
          /\ Return(u, "error")
    /\ UNCHANGED <<content, lasting>>

(* load_file of the temporary file, opened by name, into a scratch ruleset; *)
(* it may also fail for want of memory.                                     *)
Load(u) ==
    /\ pc[u] = "load"
    /\ \/ /\ \E d \in Loadable : TempHolds(u, d)
          /\ Goto(u, "move")
          /\ UNCHANGED <<got, off, fd, src, vouch, result, entry>>
       \/ /\ RemoveTemp(u)
          /\ Return(u, "error")
    /\ UNCHANGED <<content, lasting>>

(* move_file: rename replaces Dest in one step. *)
Move(u) ==
    /\ pc[u] = "move"
    /\ Temp(u) \notin OtherDevice
    /\ TempFile(u) # NoInode
    /\ entry' = [entry EXCEPT ![Dest] = TempFile(u), ![Temp(u)] = NoInode]
    /\ Installs(u)
    /\ Return(u, "success")
    /\ UNCHANGED <<content, leaked>>

(* rename fails: move_file returns its -1, which the caller takes for yes. *)
MoveFailed(u) ==
    /\ pc[u] = "move"
    /\ Return(u, "success")
    /\ UNCHANGED <<disk, lasting>>

(* Across devices rename fails with EXDEV, and copy_file takes over: it      *)
(* opens the source, then the destination, which it truncates.  Either       *)
(* fopen may fail; a copy_file without a destination returns before any      *)
(* fclose, and its stream on the source outlives the call.  Nobody reads     *)
(* from it again, so only that it is open is kept, not on which inode.       *)
MoveAcross(u) ==
    /\ pc[u] = "move"
    /\ Temp(u) \in OtherDevice
    /\ TempFile(u) # NoInode
    /\ \/ /\ src' = [src EXCEPT ![u] = TempFile(u)]
          /\ Create(u, Dest)
          /\ Installs(u)
          /\ Goto(u, "copy")
          /\ UNCHANGED <<got, vouch, result, leaked>>
       \/ /\ Return(u, "cannot_move")
          /\ leaked' \in {leaked, leaked \cup {u}}
          /\ UNCHANGED <<disk, history>>

(* One turn of the copy loop. *)
CopyChunk(u) ==
    /\ pc[u] = "copy"
    /\ off[u] < Len(content[src[u]])
    /\ content' = [content EXCEPT
                     ![fd[u]] = WriteAt(@, off[u] + 1,
                                        content[src[u]][off[u] + 1])]
    /\ off' = [off EXCEPT ![u] = @ + 1]
    /\ UNCHANGED <<pc, got, fd, src, vouch, result, entry, lasting>>

(* The loop ends: at the end of the source, at a read or write error, or     *)
(* with the last buffer not flushed by an fclose whose result is ignored.    *)
(* ferror then reads a closed stream, so it may answer either way; the       *)
(* source is removed when the copy is taken for complete.                    *)
CopyEnd(u) ==
    /\ pc[u] = "copy"
    /\ \/ /\ RemoveTemp(u)
          /\ Return(u, "success")
       \/ /\ Return(u, "cannot_move")
          /\ UNCHANGED entry
    /\ UNCHANGED <<content, lasting>>

(* The process of a call dies: its streams close, those that earlier calls   *)
(* left open included, and its files stay.                                   *)
Crash(u) ==
    /\ pc[u] # "idle"
    /\ Return(u, "none")
    /\ leaked' = leaked \ {u}
    /\ UNCHANGED <<disk, history>>

-------------------------------------------------------------------------------
(* Before the first call: no temporary file, at Dest a ruleset or nothing. *)
Init ==
    /\ pc = [u \in Updaters |-> "idle"]
    /\ got = [u \in Updaters |-> NoDoc]
    /\ off = [u \in Updaters |-> 0]
    /\ fd = [u \in Updaters |-> NoInode]
    /\ src = [u \in Updaters |-> NoInode]
    /\ vouch = [u \in Updaters |-> NoDoc]
    /\ result = [u \in Updaters |-> "none"]
    /\ leaked = {}
    /\ installer = NoOne
    /\ warrant = NoDoc
    /\ \/ /\ entry = [p \in Paths |-> NoInode]
          /\ content = [i \in Inodes |-> <<>>]
       \/ \E i \in Inodes, d \in Loadable :
            /\ entry = [p \in Paths |-> IF p = Dest THEN i ELSE NoInode]
            /\ content = [j \in Inodes |-> IF j = i THEN Whole(d) ELSE <<>>]

(* The steps an updater takes by itself once its call has begun. *)
Step(u) ==
    \/ Open(u) \/ ReadChunk(u) \/ DownloadEnd(u) \/ DownloadFailed(u)
    \/ FetchHash(u) \/ CompareDigest(u) \/ Load(u)
    \/ Move(u) \/ MoveFailed(u) \/ MoveAcross(u) \/ CopyChunk(u) \/ CopyEnd(u)

Next == \E u \in Updaters : Request(u) \/ Step(u) \/ Crash(u)

Spec == Init /\ [][Next]_vars

(* Every socket operation ends within the 8 second timeout and every file   *)
(* operation returns, so a call that has begun keeps taking steps.           *)
Fairness == \A u \in Updaters : WF_vars(Step(u))
FairSpec == Spec /\ Fairness

-------------------------------------------------------------------------------
(* Properties *)

(* The file now at Dest was renamed there (or was there from the start); one *)
(* brought by copy_file is open to every accident while it is written.       *)
Renamed == installer = NoOne \/ Temp(installer) \notin OtherDevice

(* Whatever happens to the calls, a file at Dest that got there by rename is *)
(* a complete document that load_file accepts: the check of                  *)
(* ruleset.c:588-598 is still true when, and after, move_file runs.          *)
DestIntact ==
    Renamed /\ entry[Dest] # NoInode =>
        \E d \in Loadable : content[entry[Dest]] = Whole(d)

(* What an updater with a sha256_url renamed to Dest is, for as long as it   *)
(* stays there, the document whose hash that updater fetched: nobody changed *)
(* the file after the comparison of ruleset.c:580-585.                       *)
DestVouched ==
    Renamed /\ installer \in Checked =>
        /\ entry[Dest] # NoInode
        /\ content[entry[Dest]] = Whole(warrant)

(* The document a reader of Dest finds. *)
Installed ==
    IF entry[Dest] = NoInode THEN NoDoc
    ELSE IF \E d \in Docs : content[entry[Dest]] = Whole(d)
         THEN CHOOSE d \in Docs : content[entry[Dest]] = Whole(d)
         ELSE Torn

Promise == INSTANCE InstalledRuleset
               WITH installed <- Installed, AllChecked <- Checked = Updaters

(* On one device, with no two calls in one directory at a time, readers of   *)
(* Dest only ever see whole rulesets replace one another: ruleset_update     *)
(* with all its crashes and failures implements InstalledRuleset.            *)
AtomicInstall == Promise!Spec

(* UNALIXERR_SUCCESS means that the file is in its place: a call that        *)
(* succeeds leaves the document it downloaded at Dest (utils.c:411-415).     *)
SuccessInstalls ==
    [][\A u \in Updaters :
         pc[u] # "idle" /\ result'[u] = "success" => Installed' = got[u]]_vars

(* A call always returns, unless its process dies: no loop of                *)
(* ruleset_update, http_response_read or copy_file runs for ever.            *)
UpdateReturns == \A u \in Updaters : pc[u] # "idle" ~> pc[u] = "idle"

-------------------------------------------------------------------------------
(* The inductive invariant behind DestIntact and DestVouched.  It holds when *)
(* Exclusive is TRUE; its first two parts hold in any case.                  *)

(* A call has the variables its stage uses, streams it reads or writes only  *)
(* while it does, and a hash only when it was asked to check one.  One that  *)
(* is over leaves a stream open only where its directory is on another       *)
(* device: the source of a copy without a destination (utils.c:375-379).     *)
Locals ==
    \A u \in Updaters :
        /\ pc[u] # "idle" => got[u] \in Docs
        /\ IF pc[u] \in {"write", "copy"} THEN fd[u] \in Inodes
                                        ELSE fd[u] = NoInode
        /\ IF pc[u] = "copy" THEN src[u] \in Inodes ELSE src[u] = NoInode
        /\ u \in leaked => Temp(u) \in OtherDevice
        /\ u \notin Checked => pc[u] # "hash" /\ vouch[u] = NoDoc

(* No file has two names: rename gives up the old one. *)
NoAlias ==
    \A p, q \in Paths : entry[p] = entry[q] => p = q \/ entry[p] = NoInode

(* Two calls in progress use different directories. *)
Separate ==
    \A u, w \in Updaters :
        pc[u] # "idle" /\ pc[w] # "idle" /\ Temp(u) = Temp(w) => u = w

(* A download is written to the file its directory still names.  A copy is  *)
(* written to no temporary file, and to Dest only while Dest is a copy: it   *)
(* may go on writing to a file that a rename has displaced.                  *)
OwnStreams ==
    \A u \in Updaters :
        /\ pc[u] = "write" => fd[u] = TempFile(u)
        /\ pc[u] = "copy" => \A d \in Dirs : entry[d] # fd[u]
        /\ pc[u] = "copy" /\ entry[Dest] = fd[u] => ~Renamed

(* What the checks have established is still so at every later stage. *)
Verified ==
    \A u \in Updaters :
        /\ pc[u] = "move" => \E d \in Loadable : TempHolds(u, d)
        /\ pc[u] \in {"load", "move"} /\ u \in Checked =>
               vouch[u] \in Docs /\ TempHolds(u, vouch[u])

(* Every file a call may still change is one no reader of Dest relies on, and *)
(* every file it may still install has passed the checks (ruleset.c:494-604). *)
Safe ==
    /\ NoAlias /\ Separate /\ OwnStreams
    /\ Verified /\ DestIntact /\ DestVouched

IInv == TypeOK /\ Locals /\ Safe
===============================================================================
